---------------------------- MODULE Spec2Model ----------------------------
(***************************************************************************)
(* A model of the spamd client library (spamd/libspamc.c, spamd/utils.c).  *)
(*                                                                         *)
(* Bytes are integers (their character codes).  The bytes of a daemon      *)
(* response body are never inspected by the client in Raw mode, so the     *)
(* i-th body byte sent by the daemon is the distinct value DaemonByte(i):  *)
(* any loss, duplication or reordering of body bytes is then visible.      *)
(*                                                                         *)
(* The model covers calls on the plain transport (SPAMC_USE_SSL clear).    *)
(* In Spec a response is modelled at the level of the lines that          *)
(* _spamc_read_full_line hands to the parser and of what sscanf makes of   *)
(* each line.  SpecWire follows the request and the response lines one     *)
(* system call at a time, with the time each call stays blocked; SpecFloat *)
(* applies _locale_safe_string_to_float to a token; SpecBsmtp frames a     *)
(* batched-SMTP transcript and writes it back; SpecScan runs the two       *)
(* scans of that framing one pass of a loop at a time; SpecFullWrite runs  *)
(* full_write one write() at a time; SpecSpamc runs process_message of     *)
(* the standalone client (spamd/spamc.c).                                  *)
(***************************************************************************)
EXTENDS Integers, Sequences, FiniteSets, TLC

VARIABLES
    flags,      \* the flags argument: [mode, check_only, safe_fallback]
    max_size,   \* the max_size argument
    input,      \* every byte the input descriptor will deliver
    in_pos,     \* how many of them have been read
    pc,         \* position of the call
    m,          \* struct message m
    rawbuf,     \* contents of the block m.raw was allocated as
    obuf,       \* contents of the block _message_filter allocates for m.out
    heap,       \* state of the two blocks: "none", "live", "freed"; and ub
    conn,       \* locals of try_to_connect
    sock,       \* the daemon socket: its state ("none", "open", "connected",
                \* "closed") and how often socket() and close() were called
    fr,         \* locals of the full_read in progress
    ret,        \* message_process's ret
    result,     \* what message_process returned
    output,     \* every byte the output descriptor has taken
    out_err,    \* the output descriptor has reported a hard error
    g,          \* history of the call (not program state)
    bs,         \* state of the framing round trip (SpecBsmtp)
    wire,       \* state of the exchange with the daemon (SpecWire)
    fl,         \* state of the parse of a number (SpecFloat)
    wc,         \* state of a call of full_write (SpecFullWrite)
    pm          \* state of a call of process_message (SpecSpamc)

vars == <<flags, max_size, input, in_pos, pc, m, rawbuf, obuf, heap, conn,
          sock, fr, ret, result, output, out_err, g, bs, wire, fl, wc, pm>>

procVars == <<flags, max_size, input, in_pos, pc, m, rawbuf, obuf, heap, conn,
              sock, fr, ret, result, output, out_err, g>>

-----------------------------------------------------------------------------
(* Bytes *)

LF  == 10
CR  == 13
DOT == 46

\* 'D' or 'd', 'A' or 'a', 'T' or 't'
IsD(c) == c \in {68, 100}
IsA(c) == c \in {65, 97}
IsT(c) == c \in {84, 116}

\* The i-th byte (from 1) of the body the daemon sends.
DaemonByte(i) == 128 + i

DaemonBody(n) == [i \in 1..n |-> DaemonByte(i)]

\* buf[i] with C's indexing
At(buf, i) == buf[i + 1]

Min(a, b) == IF a < b THEN a ELSE b
Max(a, b) == IF a < b THEN b ELSE a

-----------------------------------------------------------------------------
(* Bounds of the model *)

\* max_size is MaxLenSmall or MaxLenBig
MaxLenSmall == 2
MaxLenBig == 10

\* Stands for EXPANSION_ALLOWANCE (16384 in libspamc.c): the code uses it
\* only in the sums max_len+EXPANSION_ALLOWANCE and
\* max_len+EXPANSION_ALLOWANCE+1.  It is kept large enough for the summary
\* line of a check-only call, as 16384 is.
EXPANSION_ALLOWANCE == 8

\* Longest data section of a transcript of SpecBsmtp
MaxData == 5

\* Most bytes the output descriptor takes of the full_write in which it
\* reports a hard error
MaxPartial == 1

-----------------------------------------------------------------------------
(* message_read_bsmtp: framing of a batched-SMTP transcript *)

\* The condition of the DATA search at index i
IsDataAt(raw, i) ==
    /\ At(raw, i) = LF
    /\ IsD(At(raw, i + 1))
    /\ IsA(At(raw, i + 2))
    /\ IsT(At(raw, i + 3))
    /\ IsA(At(raw, i + 4))
    /\ \/ (At(raw, i + 5) = CR /\ At(raw, i + 6) = LF)
       \/ At(raw, i + 5) = LF

\* for(i=0; i<m->raw_len-6; i++): the first i that matches, or -1
RECURSIVE FindData(_, _, _)
FindData(raw, raw_len, i) ==
    IF ~(i < raw_len - 6) THEN -1
    ELSE IF IsDataAt(raw, i) THEN i
    ELSE FindData(raw, raw_len, i + 1)

\* i+=6; if(m->raw[i-1]=='\r') i++;
PreLen(raw, i) == IF At(raw, i + 5) = CR THEN i + 7 ELSE i + 6

\* m->msg[k] where msg has msg_len captured bytes; an index at or past
\* msg_len reads memory the capture did not write: junk.
MsgAt(msg, junk, k) ==
    IF k < Len(msg) THEN At(msg, k) ELSE At(junk, k - Len(msg))

\* (m->msg[i+1]=='\r' && m->msg[i+2]=='\n') || m->msg[i+1]=='\n'
LoneDot(msg, junk, i) ==
    \/ (MsgAt(msg, junk, i + 1) = CR /\ MsgAt(msg, junk, i + 2) = LF)
    \/ MsgAt(msg, junk, i + 1) = LF

\* The unstuffing loop, for(i=j=0; i<m->msg_len; i++), from (i, j, prev).
\* post = -1 is post == NULL, otherwise the offset of post in msg.
RECURSIVE Unstuff(_, _, _, _, _)
Unstuff(msg, junk, i, j, prev) ==
    IF ~(i < Len(msg))
    THEN [msg |-> msg, msg_len |-> Len(msg), post |-> -1, post_len |-> 0,
          j |-> j]
    ELSE IF prev = LF /\ At(msg, i) = DOT /\ LoneDot(msg, junk, i)
    THEN [msg |-> msg, msg_len |-> j, post |-> i, post_len |-> Len(msg) - i,
          j |-> j]
    ELSE IF prev = LF /\ At(msg, i) = DOT /\ MsgAt(msg, junk, i + 1) = DOT
    THEN Unstuff(msg, junk, i + 1, j, DOT)
    ELSE Unstuff([msg EXCEPT ![j + 1] = At(msg, i)], junk, i + 1, j + 1,
                 At(msg, i))

\* message_read_bsmtp after the capture: raw holds raw_len <= max_len bytes.
\* The result gives the frame and the new contents of the raw block.
ReadBsmtp(raw, junk) ==
    LET d == FindData(raw, Len(raw), 0) IN
    IF d = -1
    THEN [rc |-> "EX_DATAERR", raw |-> raw, pre_len |-> 0, msg_len |-> 0,
          post |-> -1, post_len |-> 0, j |-> 0]
    ELSE LET pre_len == PreLen(raw, d)
             u == Unstuff(SubSeq(raw, pre_len + 1, Len(raw)), junk, 0, 0, LF)
         IN [rc |-> "EX_OK", raw |-> SubSeq(raw, 1, pre_len) \o u.msg,
             pre_len |-> pre_len, msg_len |-> u.msg_len,
             post |-> u.post, post_len |-> u.post_len, j |-> u.j]

-----------------------------------------------------------------------------
(* message_write, MESSAGE_BSMTP: re-serialization through buffer[1024] *)

BufferSize == 1024

\* jlimit = sizeof(buffer)/sizeof(*buffer) - 4
JLimit == BufferSize - 4

\* The inner loop, for(j=0; i < out_len && j < jlimit;), from (i, buffer):
\* one chunk.
RECURSIVE StuffChunk(_, _, _, _)
StuffChunk(out, out_len, i, buffer) ==
    IF ~(i < out_len /\ Len(buffer) < JLimit) THEN [i |-> i, buffer |-> buffer]
    ELSE IF i + 1 < out_len /\ At(out, i) = LF /\ At(out, i + 1) = DOT
    THEN IF Len(buffer) > JLimit - 4 THEN [i |-> i, buffer |-> buffer]
         ELSE StuffChunk(out, out_len, i + 2,
                         buffer \o <<At(out, i), At(out, i + 1), DOT>>)
    ELSE StuffChunk(out, out_len, i + 1, Append(buffer, At(out, i)))

\* The outer loop, for(i=0; i<m->out_len; ): the chunks written, in order
RECURSIVE StuffChunks(_, _, _)
StuffChunks(out, out_len, i) ==
    IF ~(i < out_len) THEN <<>>
    ELSE LET c == StuffChunk(out, out_len, i, <<>>)
         IN <<c.buffer>> \o StuffChunks(out, out_len, c.i)

RECURSIVE Concat(_)
Concat(ss) == IF ss = <<>> THEN <<>> ELSE Head(ss) \o Concat(Tail(ss))


-----------------------------------------------------------------------------
(* Pointers and the heap *)

\* A pointer is a block and an offset into it.  "raw" is the block
\* message_read allocates, "out" the one _message_filter allocates.
NULL == [blk |-> "null", off |-> 0]
RAW_BLOCK == [blk |-> "raw", off |-> 0]
OUT_BLOCK == [blk |-> "out", off |-> 0]
\* a pointer that is no address malloc returned
WILD == [blk |-> "wild", off |-> 0]
\* a field that was never assigned
UNINIT == [blk |-> "uninit", off |-> 0]

\* An allocation of n bytes; -1 marks a byte never written.
Blank(n) == [i \in 1..n |-> -1]

\* len bytes at p
Deref(p, len, rb, ob) ==
    IF len <= 0 \/ p.blk \notin {"raw", "out"} THEN <<>>
    ELSE SubSeq(IF p.blk = "raw" THEN rb ELSE ob, p.off + 1, p.off + len)

\* free(p) is defined for NULL and for the start of a live allocation
FreeDefined(p, h) ==
    \/ p = NULL
    \/ (p.blk \in {"raw", "out"} /\ p.off = 0 /\ h[p.blk] = "live")

\* free(p): ub records that free was given something else
Free(p, h) ==
    IF p = NULL THEN h
    ELSE IF FreeDefined(p, h) THEN [h EXCEPT ![p.blk] = "freed"]
    ELSE [h EXCEPT !.ub = TRUE]

\* The heap before any allocation
NoBlocks == [raw |-> "none", out |-> "none", ub |-> FALSE]

\* The contents of block blk: nothing is known of a freed block
Contents(h, blk, bytes) == IF h[blk] = "freed" THEN <<>> ELSE bytes

\* The values an uninitialized pointer field can hold
Resolve(p) == IF p = UNINIT THEN {NULL, WILD} ELSE {p}

-----------------------------------------------------------------------------
(* struct message *)

\* What stands in a number of struct message m that was never assigned.
\* m.timeout is assigned neither by message_process nor by clear_message;
\* _message_filter reads it (libspamc_timeout = m->timeout)
Unassigned == -999

\* struct message m; m.type=MESSAGE_NONE;   (message_process)
FreshMessage ==
    [type |-> "MESSAGE_NONE", max_len |-> Unassigned,
     raw |-> UNINIT, raw_len |-> Unassigned,
     pre |-> UNINIT, pre_len |-> Unassigned,
     msg |-> UNINIT, msg_len |-> Unassigned,
     post |-> UNINIT, post_len |-> Unassigned,
     is_spam |-> "uninit", score |-> Unassigned, threshold |-> Unassigned,
     out |-> UNINIT, out_len |-> Unassigned, content_length |-> Unassigned,
     timeout |-> Unassigned]

clear_message(mm) ==
    [mm EXCEPT !.type = "MESSAGE_NONE",
               !.raw = NULL, !.raw_len = 0,
               !.pre = NULL, !.pre_len = 0,
               !.msg = NULL, !.msg_len = 0,
               !.post = NULL, !.post_len = 0,
               !.is_spam = "EX_TOOBIG",
               !.score = 0, !.threshold = 0,
               !.out = NULL, !.out_len = 0,
               !.content_length = -1]

\* message_cleanup with m.out and m.raw read as o and r: the pointers it
\* passes to free, in order
CleanupFrees(o, r) ==
    (IF o # NULL /\ o # r THEN <<o>> ELSE <<>>)
        \o (IF r # NULL THEN <<r>> ELSE <<>>)

RECURSIVE FreeAll(_, _)
FreeAll(ps, h) == IF ps = <<>> THEN h ELSE FreeAll(Tail(ps), Free(Head(ps), h))

RECURSIVE FreesDefined(_, _)
FreesDefined(ps, h) ==
    \/ ps = <<>>
    \/ (FreeDefined(Head(ps), h) /\ FreesDefined(Tail(ps), Free(Head(ps), h)))

-----------------------------------------------------------------------------
(* full_read and full_write *)

\* read(fd, buf, ...): every chunk lands at the start of the buffer
ReadInto_NoOffset(buf, total, chunk) ==
    [i \in 1..Max(Len(buf), total + Len(chunk)) |->
        IF i <= Len(chunk) THEN chunk[i]
        ELSE IF i <= Len(buf) THEN buf[i]
        ELSE -1]

\* read(fd, buf+total, ...) delivering chunk: the buffer afterwards
ReadInto(buf, total, chunk) ==
    [i \in 1..Max(Len(buf), total + Len(chunk)) |->
        IF total < i /\ i <= total + Len(chunk) THEN chunk[i - total]
        ELSE IF i <= Len(buf) THEN buf[i]
        ELSE -1]

\* A full_write to the output descriptor of a call that makes the
\* full_write calls `calls`: the descriptor's hard error, if any, strikes in
\* call fp.call after it took fp.taken bytes of it, and every later
\* full_write of bytes fails at once.  i is the index of this call.
FullWrite(calls, fp, i) ==
    IF i < fp.call \/ calls[i] = <<>>
    THEN [written |-> calls[i], rc |-> Len(calls[i])]
    ELSE [written |-> SubSeq(calls[i], 1, IF i = fp.call THEN fp.taken ELSE 0),
          rc |-> -1]

\* The calls from i on: the bytes the descriptor took and the sum of the
\* calls' return values.
RECURSIVE FullWrites(_, _, _)
FullWrites(calls, fp, i) ==
    IF i > Len(calls) THEN [written |-> <<>>, total |-> 0]
    ELSE LET w == FullWrite(calls, fp, i)
             rest == FullWrites(calls, fp, i + 1)
         IN [written |-> w.written \o rest.written,
             total |-> w.rc + rest.total]

\* Where the environment can make the descriptor fail during calls: in no
\* call (fp.call past the last), or in a call of at least one byte after at
\* most MaxPartial bytes of it.  A descriptor that has failed takes nothing.
FailPoints(calls, failed) ==
    IF failed THEN {[call |-> 1, taken |-> 0]}
    ELSE {[call |-> Len(calls) + 1, taken |-> 0]}
         \cup UNION {{[call |-> f, taken |-> k] :
                        k \in 0..Min(MaxPartial, Len(calls[f]) - 1)} :
                     f \in {c \in 1..Len(calls) : calls[c] # <<>>}}

\* The descriptor reports its hard error during calls
FailsIn(calls, fp) == \E i \in fp.call..Len(calls) : calls[i] # <<>>

\* message_write: the full_write calls it makes, in order; none, and
\* refused, when it returns -1 without writing.
MessageWriteCalls(mm, rb, ob) ==
    LET Writes(calls) == [refused |-> FALSE, calls |-> calls]
        Refuses == [refused |-> TRUE, calls |-> <<>>]
    IN IF mm.is_spam \in {"EX_ISSPAM", "EX_NOTSPAM"}
       THEN Writes(<<Deref(mm.out, mm.out_len, rb, ob)>>)
       ELSE IF mm.is_spam \notin {"EX_OUTPUTMESSAGE", "EX_TOOBIG"}
       THEN Refuses
       ELSE CASE mm.type = "MESSAGE_NONE" -> Refuses
              [] mm.type = "MESSAGE_ERROR" ->
                    Writes(<<Deref(mm.raw, mm.raw_len, rb, ob)>>)
              [] mm.type = "MESSAGE_RAW" ->
                    Writes(<<Deref(mm.out, mm.out_len, rb, ob)>>)
              [] mm.type = "MESSAGE_BSMTP" ->
                    Writes(<<Deref(mm.pre, mm.pre_len, rb, ob)>>
                           \o StuffChunks(Deref(mm.out, mm.out_len, rb, ob),
                                          mm.out_len, 0)
                           \o <<Deref(mm.post, mm.post_len, rb, ob)>>)
              [] OTHER -> Refuses


-----------------------------------------------------------------------------
(* Exit codes, errno values and the response lines of the daemon *)

\* The values <sysexits.h> gives the codes that the client compares with 0
sysexits(code) ==
    CASE code = "EX_OK" -> 0
      [] code = "EX_PROTOCOL" -> 76

MAX_CONNECT_RETRIES == 3

\* errno after a failed connect()
ConnectErrnos ==
    {"ECONNREFUSED", "ETIMEDOUT", "ENETUNREACH", "EACCES", "EISCONN"}

\* errno after a failed socket()
SocketErrnos == {"EACCES", "ENFILE", "EPROTONOSUPPORT"}

\* h_errno after a failed gethostbyname()
HErrnos == {"HOST_NOT_FOUND", "NO_ADDRESS", "NO_RECOVERY", "TRY_AGAIN",
            "NETDB_INTERNAL"}

\* Most addresses a resolved hostent lists
MaxAddrs == 3

\* Most header lines of a response
MaxHeaders == 2

\* Largest Content-length value a response header declares
MaxCL == 3

\* "True", "False", "yes"
TokTrue == <<84, 114, 117, 101>>
TokFalse == <<70, 97, 108, 115, 101>>
TokYes == <<121, 101, 115>>

\* What sscanf makes of a header line: the three fields of a Spam line
\* (score and threshold in tenths), the number of a Content-length line, or
\* neither.
HeaderLines ==
    {[kind |-> "spam", tok |-> TokTrue, score |-> 75, threshold |-> 50],
     [kind |-> "spam", tok |-> TokFalse, score |-> 10, threshold |-> 50],
     [kind |-> "spam", tok |-> TokYes, score |-> 20, threshold |-> 50]}
    \cup {[kind |-> "clen", n |-> n] : n \in -1..MaxCL}
    \cup {[kind |-> "other"]}

\* What the status line parses to: SPAMD/<version> <code> <reason> with
\* version >= 1.0, the same with a version below 1.0, or no such line
StatusLines == {"good", "oldversion", "unparsable"}

Lower(c) == IF 65 <= c /\ c <= 90 THEN c + 32 ELSE c

\* strcasecmp(a, b) == 0
StrCaseEq(a, b) ==
    /\ Len(a) = Len(b)
    /\ \A i \in 1..Len(a) : Lower(a[i]) = Lower(b[i])

\* "true"
LowerTrue == <<116, 114, 117, 101>>

\* The decimal digits of n >= 0
RECURSIVE Digits(_)
Digits(n) ==
    IF n < 10 THEN <<48 + n>> ELSE Append(Digits(n \div 10), 48 + (n % 10))

\* printf("%.1f") of x tenths, x >= 0
Fmt1(x) == Digits(x \div 10) \o <<DOT>> \o Digits(x % 10)

\* snprintf(..., "%.1f/%.1f\n", threshold, score)
Summary_ThresholdFirst(score, threshold) ==
    Fmt1(threshold) \o <<47>> \o Fmt1(score) \o <<LF>>

\* snprintf(..., "%.1f/%.1f\n", score, threshold)
Summary(score, threshold) == Fmt1(score) \o <<47>> \o Fmt1(threshold) \o <<LF>>

\* "0/0\n"
ZeroRecord == <<48, 47, 48, LF>>

\* snprintf(buf, size, ...) of text: at most size-1 characters and a NUL
Snprintf(buf, size, text) ==
    IF size <= 0 THEN buf
    ELSE ReadInto(buf, 0, Append(SubSeq(text, 1, Min(Len(text), size - 1)), 0))

\* _handle_spamd_header: the message afterwards, the out block afterwards
\* and the value returned
HandleSpamdHeader(mm, ob, check_only, line) ==
    IF line.kind = "spam"
    THEN LET verdict == IF StrCaseEq(LowerTrue, line.tok) THEN "EX_ISSPAM"
                        ELSE "EX_NOTSPAM"
             text == Summary(line.score, line.threshold)
         IN [m |-> [mm EXCEPT !.score = line.score,
                              !.threshold = line.threshold,
                              !.is_spam = verdict,
                              !.out_len = IF check_only THEN Len(text) ELSE @],
             obuf |-> IF check_only
                      THEN Snprintf(ob, mm.max_len + EXPANSION_ALLOWANCE, text)
                      ELSE ob,
             rc |-> "EX_OK"]
    ELSE IF line.kind = "clen"
    THEN [m |-> [mm EXCEPT !.content_length = line.n], obuf |-> ob,
          rc |-> IF line.n < 0 THEN "EX_PROTOCOL" ELSE "EX_OK"]
    ELSE [m |-> mm, obuf |-> ob, rc |-> "EX_PROTOCOL"]

\* if (_handle_spamd_header(m, flags, buf, len) < 0)
HeaderRejected(rc) == sysexits(rc) < 0

\* if(m->out_len<m->content_length): only a short body is refused
SanityCheckFails_ShortOnly(out_len, content_length) == out_len < content_length

\* if(m->out_len!=m->content_length)
SanityCheckFails(out_len, content_length) == out_len # content_length

\* if(len+m->out_len>m->max_len+EXPANSION_ALLOWANCE)
BodyTooBig(len, out_len, max_len) == len + out_len > max_len + EXPANSION_ALLOWANCE

\* inaddrlist[0]: the first address is dialed on every attempt
AddrIndex_First(numloops, hostnum) == 0

\* inaddrlist[numloops % hostnum]
AddrIndex(numloops, hostnum) == numloops % hostnum

\* switch(origerr) without the case ECONNREFUSED
ConnectFailure_NoRefused(origerr) ==
    CASE origerr \in {"ETIMEDOUT", "ENETUNREACH"} -> "EX_UNAVAILABLE"
      [] origerr = "EACCES" -> "EX_NOPERM"
      [] OTHER -> "EX_SOFTWARE"

\* try_to_connect: switch(origerr) after the retries
ConnectFailure(origerr) ==
    CASE origerr \in {"ECONNREFUSED", "ETIMEDOUT", "ENETUNREACH"} ->
            "EX_UNAVAILABLE"
      [] origerr = "EACCES" -> "EX_NOPERM"
      [] OTHER -> "EX_SOFTWARE"

\* try_to_connect: switch(origerr) after socket() failed
SocketFailure(origerr) ==
    CASE origerr = "EACCES" -> "EX_NOPERM"
      [] origerr \in {"ENFILE", "EMFILE", "ENOBUFS", "ENOMEM"} -> "EX_OSERR"
      [] OTHER -> "EX_SOFTWARE"

\* _lookup_host: switch(origherr)
LookupFailure(origherr) ==
    CASE origherr \in {"HOST_NOT_FOUND", "NO_ADDRESS", "NO_RECOVERY"} ->
            "EX_NOHOST"
      [] origherr = "TRY_AGAIN" -> "EX_TEMPFAIL"
      [] OTHER -> "EX_OSERR"


-----------------------------------------------------------------------------
(* The calls of message_process that the model runs *)

\* The i-th byte (from 1) of an input that is not a transcript: 'a', 'b', ...
InputByte(i) == 96 + i

\* "\nDATA\n" and "x\nDATA\r\n"
DataLF == <<LF, 68, 65, 84, 65, LF>>
DataCRLF == <<120, LF, 100, 97, 116, 97, CR, LF>>

\* max_size and the input of a call: with MaxLenSmall, inputs of
\* 0 .. MaxLenSmall+2 bytes; with MaxLenBig, transcripts: an empty data
\* section, one line, a stuffed line without terminator, no DATA line, a
\* dot as the last byte, and one longer than MaxLenBig.
Calls ==
    {<<MaxLenSmall, [i \in 1..n |-> InputByte(i)]>> :
        n \in 0..(MaxLenSmall + 2)}
    \cup {<<MaxLenBig, t>> :
            t \in {DataLF \o <<DOT, LF>>,
                   DataLF \o <<120, LF, DOT, LF>>,
                   DataLF \o <<DOT, DOT, LF>>,
                   <<120, LF, 120, LF, 120, LF, 120, LF>>,
                   DataLF \o <<120, LF, DOT>>,
                   DataLF \o [i \in 1..(MaxLenBig - 5) |-> 120]}}

Flags ==
    [mode : {"SPAMC_RAW_MODE", "SPAMC_BSMTP_MODE"},
     check_only : BOOLEAN, safe_fallback : BOOLEAN]

\* What the two bytes after the capture can hold
JunkPairs == {<<LF, LF>>, <<120, 120>>, <<DOT, 120>>, <<CR, LF>>}

\* char buf[8196] of message_dump and the 8192 it reads at a time
DumpBufSize == 8192

\* No socket() yet
NoSocket == [state |-> "none", created |-> 0, closed |-> 0]

\* mysock = socket(PF_INET,SOCK_STREAM,0)
socket(s) == [s EXCEPT !.state = "open", !.created = @ + 1]

\* close(sock)
close(s) == [s EXCEPT !.state = "closed", !.closed = @ + 1]

\* The failure label without its close
FailureClose_Leak(s) == s

\* if (sock != -1) { close(sock); }: sock of _message_filter is the
\* descriptor from the time try_to_connect has returned EX_OK until the
\* close of the success paths, and -1 otherwise
FailureClose(s) == IF s.state = "connected" THEN close(s) ELSE s

\* The locals of try_to_connect, its return value once it has returned, and
\* the history of its attempts: the addresses dialed, whether every attempt
\* was refused, whether every attempt was refused, timed out or found the
\* network unreachable.
ConnIdle == [hostnum |-> 0, numloops |-> 0, origerr |-> "uninit",
             status |-> -1, ret |-> "none", dialed |-> <<>>,
             all_refused |-> TRUE, all_unavailable |-> TRUE,
             ignored |-> FALSE]

\* Stands for the 256 entries of inaddrlist
inaddrlist_size == MaxAddrs

\* _lookup_host calls syslog whatever gethostbyname returned
LookupLogs_Always(h) == TRUE

\* _lookup_host calls syslog when gethostbyname returned NULL
LookupLogs(h) == h # "ok"

\* The loop for (hostnum=0; hent->h_addr_list[hostnum] != 0; hostnum++) of
\* try_to_connect from hostnum on, over a list of n addresses: its reads
\* of the resolver's list and its diagnostics, in order
RECURSIVE CopyEvents(_, _)
CopyEvents(hostnum, n) ==
    IF hostnum >= n THEN <<"read">>
    ELSE IF hostnum > inaddrlist_size - 1 THEN <<"read", "syslog">>
    ELSE <<"read", "read", "read">> \o CopyEvents(hostnum + 1, n)

\* The resolver's list is read after a diagnostic
ReadAfterLog(ev) ==
    \E i, j \in 1..Len(ev) : i < j /\ ev[i] = "syslog" /\ ev[j] = "read"

FrIdle == [total |-> 0, min |-> 0, len |-> 0, buf |-> <<>>]

\* History of the call
NoHistory ==
    [lookups |-> 0,          \* resolver lookups made
     attempts |-> 0,         \* connect() calls made
     refused |-> FALSE,      \* try_to_connect failed, every attempt refused
     frame_rc |-> "none",    \* what message_read returned
     lookups_at_frame |-> 0, \* lookups made when message_read returned
     in_err |-> FALSE,       \* a read() of the input reported an error
     herr |-> "none",        \* h_errno of the lookup, or "ok"
     logged |-> FALSE,       \* syslog was called since gethostbyname
     stale |-> FALSE,        \* the resolver's list was read after that
     sent |-> FALSE,         \* the request was sent
     nhdr |-> 0,             \* header lines read
     hdr_end |-> FALSE,      \* the blank line ending the headers was read
     bad_hdr |-> FALSE,      \* a header line was neither a Spam line nor a
                             \* Content-length line with a number >= 0
     tok |-> <<>>,           \* token of the last Spam line
     body_rcvd |-> 0,        \* body bytes read from the daemon
     body_split |-> FALSE,   \* the body came in two or more reads
     sanity_len |-> 0,       \* m->out_len when the sanity check read it
     fret |-> "none",        \* what _message_filter returned
     wrote |-> "none",       \* m.is_spam when message_write succeeded
     failed |-> FALSE]       \* the call went to FAIL

\* The history kept once the call has gone to FAIL: what the response was
\* made of is dropped, since nothing that follows depends on it
Forget(h) == [h EXCEPT !.nhdr = 0, !.hdr_end = FALSE, !.bad_hdr = FALSE,
                       !.tok = <<>>, !.body_rcvd = 0, !.body_split = FALSE,
                       !.sanity_len = 0]

BsIdle == [phase |-> "idle"]

WireIdle == [phase |-> "idle"]

FloatIdle == [phase |-> "idle"]

WriteIdle == [phase |-> "idle"]

PmIdle == [phase |-> "idle"]

Init ==
    /\ flags \in Flags
    /\ \E c \in Calls : max_size = c[1] /\ input = c[2]
    /\ in_pos = 0
    /\ pc = "start"
    /\ m = FreshMessage
    /\ rawbuf = <<>>
    /\ obuf = <<>>
    /\ heap = NoBlocks
    /\ conn = ConnIdle
    /\ sock = NoSocket
    /\ fr = FrIdle
    /\ ret = "none"
    /\ result = "none"
    /\ output = <<>>
    /\ out_err = FALSE
    /\ g = NoHistory
    /\ bs = BsIdle
    /\ wire = WireIdle
    /\ fl = FloatIdle
    /\ wc = WriteIdle
    /\ pm = PmIdle

-----------------------------------------------------------------------------
(* message_process *)

\* message_cleanup(&m) and the return of message_process.  val is the value
\* returned, or "m.is_spam" for return m.is_spam, which reads the field
\* after message_cleanup has cleared it.  A free that is not defined either
\* ends the process or goes unnoticed.
CleanupAndReturn(mm, h, val) ==
    \E o \in Resolve(mm.out), r \in Resolve(mm.raw) :
        LET frees == CleanupFrees(o, r)
            cleared == clear_message(mm)
        IN \E crash \in IF FreesDefined(frees, h) THEN {FALSE} ELSE BOOLEAN :
            /\ heap' = FreeAll(frees, h)
            /\ rawbuf' = Contents(FreeAll(frees, h), "raw", rawbuf)
            /\ obuf' = Contents(FreeAll(frees, h), "out", obuf)
            /\ IF crash
               THEN /\ pc' = "crashed"
                    /\ m' = mm
                    /\ result' = result
               ELSE /\ pc' = "done"
                    /\ m' = cleared
                    /\ result' = IF val = "m.is_spam" THEN cleared.is_spam
                                 ELSE val

\* ret=lookup_host_for_failover(hostname, &hent); if(ret!=EX_OK) goto FAIL;
\* m.max_len=max_size;
LookupHost ==
    /\ pc = "start"
    /\ \E h \in HErrnos \cup {"ok"} :
        /\ ret' = IF h = "ok" THEN "EX_OK" ELSE LookupFailure(h)
        /\ pc' = IF h = "ok" THEN "read" ELSE "FAIL"
        /\ m' = IF h = "ok" THEN [m EXCEPT !.max_len = max_size] ELSE m
        /\ g' = [g EXCEPT !.lookups = @ + 1, !.herr = h,
                          !.logged = LookupLogs(h)]
    /\ UNCHANGED <<flags, max_size, input, in_pos, rawbuf, obuf, heap, conn,
                   sock, fr, result, output, out_err, bs, wire, fl,
                   wc, pm>>

\* message_read up to its call of full_read: clear_message and malloc
MessageRead ==
    /\ pc = "read"
    /\ \E ok \in BOOLEAN :
        IF ok
        THEN /\ m' = [clear_message(m) EXCEPT !.raw = RAW_BLOCK]
             /\ heap' = [heap EXCEPT !.raw = "live"]
             /\ rawbuf' = Blank(m.max_len + 1)
             /\ fr' = [FrIdle EXCEPT !.min = m.max_len + 1,
                                     !.len = m.max_len + 1]
             /\ pc' = "read_input"
             /\ UNCHANGED <<ret, g>>
        ELSE /\ m' = clear_message(m)
             /\ ret' = "EX_OSERR"
             /\ g' = [g EXCEPT !.frame_rc = "EX_OSERR",
                               !.lookups_at_frame = g.lookups]
             /\ pc' = "FAIL"
             /\ UNCHANGED <<heap, rawbuf, fr>>
    /\ UNCHANGED <<flags, max_size, input, in_pos, obuf, conn, sock, result,
                   output, out_err, bs, wire, fl,
                   wc, pm>>

\* if(m->raw_len>=m->max_len): an input of max_len bytes is refused
RawTooBig_OffByOne(raw_len, max_len) == raw_len >= max_len

\* if(m->raw_len>m->max_len) return EX_TOOBIG;
RawTooBig(raw_len, max_len) == raw_len > max_len

\* message_read_raw and message_read_bsmtp after full_read returned n into
\* the raw block rb: the message, the raw block and the heap afterwards and
\* the value returned.
MessageReadFinish(mm, rb, h, n, mode, junk) ==
    IF n <= 0
    THEN [m |-> [mm EXCEPT !.raw = NULL, !.raw_len = 0], rawbuf |-> rb,
          heap |-> Free(mm.raw, h), rc |-> "EX_IOERR"]
    ELSE IF RawTooBig(n, mm.max_len)
    THEN [m |-> [mm EXCEPT !.raw_len = n, !.type = "MESSAGE_ERROR"],
          rawbuf |-> rb, heap |-> h, rc |-> "EX_TOOBIG"]
    ELSE IF mode = "SPAMC_RAW_MODE"
    THEN [m |-> [mm EXCEPT !.raw_len = n, !.type = "MESSAGE_RAW",
                           !.msg = mm.raw, !.msg_len = n,
                           !.out = mm.raw, !.out_len = n],
          rawbuf |-> rb, heap |-> h, rc |-> "EX_OK"]
    ELSE LET f == ReadBsmtp(SubSeq(rb, 1, n), junk)
             msgp == [blk |-> "raw", off |-> f.pre_len]
         IN IF f.rc # "EX_OK"
            THEN [m |-> [mm EXCEPT !.raw_len = n, !.type = "MESSAGE_ERROR",
                                   !.pre = mm.raw],
                  rawbuf |-> rb, heap |-> h, rc |-> f.rc]
            ELSE [m |-> [mm EXCEPT
                            !.raw_len = n, !.type = "MESSAGE_BSMTP",
                            !.pre = mm.raw, !.pre_len = f.pre_len,
                            !.msg = msgp, !.msg_len = f.msg_len,
                            !.post = IF f.post = -1 THEN NULL
                                     ELSE [blk |-> "raw",
                                           off |-> f.pre_len + f.post],
                            !.post_len = f.post_len,
                            !.out = msgp, !.out_len = f.msg_len],
                  rawbuf |-> ReadInto(rb, 0, f.raw), heap |-> h,
                  rc |-> "EX_OK"]

\* One read() of the full_read in progress on the input descriptor: what it
\* returns (-1, 0 at the end of the input, or the number of bytes of a
\* chunk) and the chunk.
InputReads ==
    LET avail == Len(input) - in_pos
        want == fr.len - fr.total
    IN {[n |-> -1, chunk |-> <<>>]}
       \cup (IF avail = 0 THEN {[n |-> 0, chunk |-> <<>>]} ELSE {})
       \cup {[n |-> k, chunk |-> SubSeq(input, in_pos + 1, in_pos + k)] :
                k \in 1..Min(avail, want)}

\* full_read after a read() that returned n: whether it returns, and the
\* value it then returns
FullReadResult(n, total, min) ==
    IF n < 0 THEN [returns |-> TRUE, val |-> -1]
    ELSE IF n = 0 THEN [returns |-> TRUE, val |-> total]
    ELSE IF total + n < min THEN [returns |-> FALSE, val |-> total + n]
    ELSE [returns |-> TRUE, val |-> total + n]

\* One read() of message_read's full_read, and when full_read returns, the
\* rest of message_read and of message_process up to _message_filter
ReadInput ==
    /\ pc = "read_input"
    /\ \E r \in InputReads, junk \in JunkPairs :
        LET res == FullReadResult(r.n, fr.total, fr.min)
            rb == ReadInto(rawbuf, fr.total, r.chunk)
        IN /\ in_pos' = in_pos + Len(r.chunk)
           /\ IF ~res.returns
              THEN /\ rawbuf' = rb
                   /\ fr' = [fr EXCEPT !.total = @ + r.n]
                   /\ UNCHANGED <<pc, m, heap, ret, g>>
              ELSE LET f == MessageReadFinish(m, rb, heap, res.val,
                                              flags.mode, junk)
                   IN /\ m' = f.m
                      /\ rawbuf' = f.rawbuf
                      /\ heap' = f.heap
                      /\ ret' = f.rc
                      /\ fr' = FrIdle
                      /\ g' = [g EXCEPT !.frame_rc = f.rc,
                                        !.lookups_at_frame = g.lookups,
                                        !.in_err = r.n < 0]
                      /\ pc' = IF f.rc = "EX_OK" THEN "filter" ELSE "FAIL"
    /\ UNCHANGED <<flags, max_size, input, obuf, conn, sock, result, output,
                   out_err, bs, wire, fl,
                   wc, pm>>


-----------------------------------------------------------------------------
(* _message_filter and try_to_connect *)

\* The failure label of _message_filter, and its early returns after a
\* failed try_to_connect: free(m->out); m->out=m->msg; m->out_len=m->msg_len;
\* the socket is closed if it is still open; message_process goes to FAIL.
FilterFails(mm, h, code) ==
    /\ m' = [mm EXCEPT !.out = mm.msg, !.out_len = mm.msg_len]
    /\ heap' = Free(mm.out, h)
    /\ obuf' = <<>>
    /\ sock' = FailureClose(sock)
    /\ ret' = code
    /\ pc' = "FAIL"

\* _message_filter up to the first connect(): the out block is allocated,
\* the request header is built, try_to_connect copies the hostnum addresses
\* of the hostent and creates its socket.
FilterBegin ==
    /\ pc = "filter"
    /\ \/ \* malloc fails: goto failure with m->out == NULL
          /\ FilterFails([m EXCEPT !.is_spam = "EX_TOOBIG", !.out = NULL],
                         heap, "EX_OSERR")
          /\ g' = [g EXCEPT !.fret = "EX_OSERR"]
          /\ UNCHANGED conn
       \/ \* the address list is copied, then socket() fails
          \E e \in SocketErrnos, k \in 1..MaxAddrs + 1 :
            /\ FilterFails([m EXCEPT !.is_spam = "EX_TOOBIG",
                                     !.out = OUT_BLOCK, !.out_len = 0],
                           [heap EXCEPT !.out = "live"], SocketFailure(e))
            /\ g' = [g EXCEPT !.fret = SocketFailure(e),
                              !.stale = ReadAfterLog(
                                  (IF g.logged THEN <<"syslog">> ELSE <<>>)
                                  \o CopyEvents(0, k))]
            /\ UNCHANGED conn
       \/ \* the resolver returned k addresses; inaddrlist takes the first
          \* inaddrlist_size of them
          \E k \in 1..MaxAddrs + 1 :
            /\ m' = [m EXCEPT !.is_spam = "EX_TOOBIG", !.out = OUT_BLOCK,
                              !.out_len = 0]
            /\ heap' = [heap EXCEPT !.out = "live"]
            /\ obuf' = Blank(m.max_len + EXPANSION_ALLOWANCE + 1)
            /\ conn' = [ConnIdle EXCEPT !.hostnum = Min(k, inaddrlist_size),
                                        !.ignored = k > inaddrlist_size]
            /\ sock' = socket(sock)
            /\ pc' = "connect"
            /\ g' = [g EXCEPT !.stale = ReadAfterLog(
                                  (IF g.logged THEN <<"syslog">> ELSE <<>>)
                                  \o CopyEvents(0, k))]
            /\ UNCHANGED ret
    /\ UNCHANGED <<flags, max_size, input, in_pos, rawbuf, fr, result, output,
                   out_err, bs, wire, fl,
                   wc, pm>>

\* One pass of the loop for (numloops=0; numloops < MAX_CONNECT_RETRIES;
\* numloops++): connect() to inaddrlist[numloops % hostnum].  After the
\* pass that succeeds, or after the last pass, try_to_connect returns
\* conn.ret.
ConnectAttempt ==
    /\ pc = "connect"
    /\ conn.numloops < MAX_CONNECT_RETRIES
    /\ \E e \in ConnectErrnos \cup {"ok"} :
        LET tried == [conn EXCEPT
                        !.dialed = Append(@, AddrIndex(conn.numloops,
                                                       conn.hostnum))]
        IN IF e = "ok"
           THEN /\ conn' = [tried EXCEPT !.status = 0, !.ret = "EX_OK"]
                /\ sock' = [sock EXCEPT !.state = "connected"]
                /\ pc' = "connect_ret"
           ELSE /\ conn' = [tried EXCEPT
                              !.status = -1, !.origerr = e,
                              !.all_refused = @ /\ e = "ECONNREFUSED",
                              !.all_unavailable =
                                  @ /\ e \in {"ECONNREFUSED", "ETIMEDOUT",
                                               "ENETUNREACH"},
                              !.numloops = @ + 1,
                              !.ret = IF conn.numloops + 1 < MAX_CONNECT_RETRIES
                                      THEN "none" ELSE ConnectFailure(e)]
                /\ sock' = IF conn.numloops + 1 < MAX_CONNECT_RETRIES
                           THEN sock ELSE close(sock)
                /\ pc' = IF conn.numloops + 1 < MAX_CONNECT_RETRIES
                         THEN "connect" ELSE "connect_ret"
    /\ g' = [g EXCEPT !.attempts = @ + 1]
    /\ UNCHANGED <<flags, max_size, input, in_pos, m, rawbuf, obuf, heap, fr,
                   ret, result, output, out_err, bs, wire, fl,
                   wc, pm>>

\* _message_filter after try_to_connect returned: on failure it returns
\* that value; otherwise it sends the request (full_write of the header,
\* full_write of the body, shutdown(sock, SHUT_WR), no result looked at).
AfterConnect ==
    /\ pc = "connect_ret"
    /\ IF conn.ret # "EX_OK"
       THEN /\ FilterFails(m, heap, conn.ret)
            /\ g' = [g EXCEPT !.fret = conn.ret,
                              !.refused = conn.all_refused]
       ELSE /\ pc' = "status"
            /\ g' = [g EXCEPT !.sent = TRUE]
            /\ UNCHANGED <<m, obuf, heap, sock, ret>>
    /\ conn' = ConnIdle
    /\ UNCHANGED <<flags, max_size, input, in_pos, rawbuf, fr, result,
                   output, out_err, bs, wire, fl,
                   wc, pm>>

\* _spamc_read_full_line for the status line, and its parse
ReadStatusLine ==
    /\ pc = "status"
    /\ \/ \E code \in {"EX_IOERR", "EX_TOOBIG"} :
            /\ FilterFails(m, heap, code)
            /\ g' = [g EXCEPT !.fret = code]
       \/ \E line \in StatusLines :
            IF line = "good"
            THEN /\ m' = [m EXCEPT !.score = 0, !.threshold = 0,
                                   !.is_spam = "EX_TOOBIG"]
                 /\ pc' = "headers"
                 /\ UNCHANGED <<obuf, heap, sock, ret, g>>
            ELSE /\ FilterFails(m, heap, "EX_PROTOCOL")
                 /\ g' = [g EXCEPT !.fret = "EX_PROTOCOL"]
    /\ UNCHANGED <<flags, max_size, input, in_pos, rawbuf, conn, fr,
                   result, output, out_err, bs, wire, fl,
                   wc, pm>>


\* What one _spamc_read_full_line of the header loop can give: a failure,
\* the empty line, or a header line (at most MaxHeaders of them)
HeaderReads ==
    {[kind |-> "fail", rc |-> "EX_IOERR"], [kind |-> "fail", rc |-> "EX_TOOBIG"],
     [kind |-> "blank"]}
    \cup (IF g.nhdr < MaxHeaders THEN HeaderLines ELSE {})

\* One pass of the while (1) loop over the header lines.  After the empty
\* line: a check-only call closes the socket and returns; any other call
\* goes on to read the body.
ReadHeaderLine ==
    /\ pc = "headers"
    /\ \E line \in HeaderReads :
        IF line.kind = "fail"
        THEN /\ FilterFails(m, heap, line.rc)
             /\ g' = [g EXCEPT !.fret = line.rc]
             /\ UNCHANGED fr
        ELSE IF line.kind = "blank"
        THEN IF flags.check_only
             THEN /\ IF m.is_spam = "EX_TOOBIG"
                     THEN /\ FilterFails(m, heap, "EX_PROTOCOL")
                          /\ g' = [g EXCEPT !.hdr_end = TRUE,
                                            !.fret = "EX_PROTOCOL"]
                     ELSE /\ sock' = close(sock)
                          /\ pc' = "write"
                          /\ g' = [g EXCEPT !.hdr_end = TRUE,
                                            !.fret = "EX_OK"]
                          /\ UNCHANGED <<m, obuf, heap, ret>>
                  /\ UNCHANGED fr
             ELSE /\ IF m.content_length < 0
                     THEN /\ FilterFails([m EXCEPT
                                            !.is_spam = "EX_OUTPUTMESSAGE"],
                                         heap, "EX_PROTOCOL")
                          /\ g' = [g EXCEPT !.hdr_end = TRUE,
                                            !.fret = "EX_PROTOCOL"]
                          /\ UNCHANGED fr
                     ELSE /\ m' = [m EXCEPT !.is_spam = "EX_OUTPUTMESSAGE"]
                          /\ fr' = [FrIdle EXCEPT
                                      !.min = m.max_len + EXPANSION_ALLOWANCE
                                              + 1 - m.out_len,
                                      !.len = m.max_len + EXPANSION_ALLOWANCE
                                              + 1 - m.out_len]
                          /\ pc' = "body"
                          /\ g' = [g EXCEPT !.hdr_end = TRUE]
                          /\ UNCHANGED <<obuf, heap, sock, ret>>
        ELSE LET h == HandleSpamdHeader(m, obuf, flags.check_only, line)
             IN /\ IF HeaderRejected(h.rc)
                   THEN /\ FilterFails(h.m, heap, "EX_PROTOCOL")
                        /\ g' = [g EXCEPT !.nhdr = @ + 1,
                                          !.bad_hdr = @ \/ h.rc # "EX_OK",
                                          !.fret = "EX_PROTOCOL"]
                   ELSE /\ m' = h.m
                        /\ g' = [g EXCEPT
                                   !.nhdr = @ + 1,
                                   !.bad_hdr = @ \/ h.rc # "EX_OK",
                                   !.tok = IF line.kind = "spam" THEN line.tok
                                           ELSE @]
                        /\ obuf' = h.obuf
                        /\ UNCHANGED <<pc, heap, sock, ret>>
                /\ UNCHANGED fr
    /\ UNCHANGED <<flags, max_size, input, in_pos, rawbuf, conn, result,
                   output, out_err, bs, wire, fl,
                   wc, pm>>

\* One read() of the full_read of the response body: -1, 0 when the daemon
\* has closed, or the next k bytes of the body
BodyReads ==
    {[n |-> -1, chunk |-> <<>>], [n |-> 0, chunk |-> <<>>]}
    \cup {[n |-> k,
           chunk |-> [i \in 1..k |-> DaemonByte(g.body_rcvd + i)]] :
            k \in 1..(fr.len - fr.total)}

\* One read() of the body's full_read, and when full_read returns, the rest
\* of _message_filter
ReadBody ==
    /\ pc = "body"
    /\ \E r \in BodyReads :
        LET res == FullReadResult(r.n, fr.total, fr.min)
            ob == ReadInto(obuf, m.out_len + fr.total, r.chunk)
            rcvd == [g EXCEPT !.body_rcvd = @ + Len(r.chunk),
                              !.body_split = @ \/ (r.n > 0 /\ g.body_rcvd > 0)]
        IN IF ~res.returns
           THEN /\ fr' = [fr EXCEPT !.total = @ + r.n]
                /\ obuf' = ob
                /\ g' = rcvd
                /\ UNCHANGED <<pc, m, heap, sock, ret>>
           ELSE /\ fr' = FrIdle
                /\ IF BodyTooBig(res.val, m.out_len, m.max_len)
                   THEN /\ FilterFails(m, heap, "EX_TOOBIG")
                        /\ g' = [rcvd EXCEPT !.fret = "EX_TOOBIG"]
                   ELSE IF SanityCheckFails(m.out_len + res.val,
                                            m.content_length)
                   THEN /\ FilterFails([m EXCEPT !.out_len = @ + res.val],
                                       heap, "EX_PROTOCOL")
                        /\ g' = [rcvd EXCEPT
                                   !.fret = "EX_PROTOCOL",
                                   !.sanity_len = m.out_len + res.val]
                   ELSE /\ m' = [m EXCEPT !.out_len = @ + res.val]
                        /\ obuf' = ob
                        /\ sock' = close(sock)
                        /\ pc' = "write"
                        /\ g' = [rcvd EXCEPT
                                   !.fret = "EX_OK",
                                   !.sanity_len = m.out_len + res.val]
                        /\ UNCHANGED <<heap, ret>>
    /\ UNCHANGED <<flags, max_size, input, in_pos, rawbuf, conn, result,
                   output, out_err, bs, wire, fl,
                   wc, pm>>


-----------------------------------------------------------------------------
(* message_process: writing the result, and FAIL *)

\* if(message_write(out_fd, &m)<0) goto FAIL; and the two returns of the
\* success path
WriteResult ==
    /\ pc = "write"
    /\ LET w == MessageWriteCalls(m, rawbuf, obuf)
       IN \E fp \in FailPoints(w.calls, out_err) :
            LET fw == FullWrites(w.calls, fp, 1)
            IN /\ output' = output \o fw.written
               /\ out_err' = (out_err \/ FailsIn(w.calls, fp))
               /\ IF w.refused \/ fw.total < 0
                  THEN /\ pc' = "FAIL"
                       /\ UNCHANGED <<m, rawbuf, obuf, heap, result, g>>
                  ELSE /\ CleanupAndReturn(m, heap,
                                           IF m.is_spam # "EX_TOOBIG"
                                           THEN "m.is_spam" ELSE ret)
                       /\ g' = [g EXCEPT !.wrote = m.is_spam]
    /\ UNCHANGED <<flags, max_size, input, in_pos, conn, sock, fr, ret, bs, wire, fl,
                   wc, pm>>

\* FAIL: for a check-only call, the zero record, message_cleanup and return
\* EX_NOTSPAM; for any other call, message_dump up to its loop: the message
\* is written if m.type is not MESSAGE_NONE.
Fail ==
    /\ pc = "FAIL"
    /\ g' = [Forget(g) EXCEPT !.failed = TRUE]
    /\ IF flags.check_only
       THEN \E fp \in FailPoints(<<ZeroRecord>>, out_err) :
               /\ output' = output \o
                      FullWrites(<<ZeroRecord>>, fp, 1).written
               /\ out_err' = (out_err \/ FailsIn(<<ZeroRecord>>, fp))
               /\ CleanupAndReturn(m, heap, "EX_NOTSPAM")
               /\ UNCHANGED fr
       ELSE LET w == IF m.type # "MESSAGE_NONE"
                     THEN MessageWriteCalls(m, rawbuf, obuf)
                     ELSE [refused |-> TRUE, calls |-> <<>>]
            IN \E fp \in FailPoints(w.calls, out_err) :
                 /\ output' = output \o FullWrites(w.calls, fp, 1).written
                 /\ out_err' = (out_err \/ FailsIn(w.calls, fp))
                 /\ fr' = [FrIdle EXCEPT !.min = DumpBufSize,
                                         !.len = DumpBufSize]
                 /\ pc' = "dump"
                 /\ UNCHANGED <<m, rawbuf, obuf, heap, result>>
    /\ UNCHANGED <<flags, max_size, input, in_pos, conn, sock, ret, bs, wire, fl,
                   wc, pm>>

\* One read() of a full_read of message_dump's loop; when full_read returns
\* bytes > 0 they are written and the loop goes on, otherwise message_dump
\* returns and message_process returns ret after message_cleanup.
Dump ==
    /\ pc = "dump"
    /\ \E r \in InputReads :
        LET res == FullReadResult(r.n, fr.total, fr.min)
            buf == ReadInto(fr.buf, fr.total, r.chunk)
        IN /\ in_pos' = in_pos + Len(r.chunk)
           /\ g' = [g EXCEPT !.in_err = @ \/ r.n < 0]
           /\ IF ~res.returns
              THEN /\ fr' = [fr EXCEPT !.total = @ + r.n,
                                       !.buf = buf]
                   /\ UNCHANGED <<pc, m, rawbuf, obuf, heap, result, output,
                                  out_err>>
              ELSE IF res.val > 0
              THEN LET calls == <<SubSeq(buf, 1, res.val)>>
                   IN \E fp \in FailPoints(calls, out_err) :
                        /\ output' = output \o
                               FullWrites(calls, fp, 1).written
                        /\ out_err' = (out_err \/ FailsIn(calls, fp))
                        /\ fr' = [fr EXCEPT !.total = 0,
                                            !.buf = buf]
                        /\ UNCHANGED <<pc, m, rawbuf, obuf, heap, result>>
              ELSE /\ CleanupAndReturn(m, heap, ret)
                   /\ fr' = FrIdle
                   /\ UNCHANGED <<output, out_err>>
    /\ UNCHANGED <<flags, max_size, input, conn, sock, ret, bs, wire, fl,
                   wc, pm>>

Next ==
    \/ LookupHost
    \/ MessageRead
    \/ ReadInput
    \/ FilterBegin
    \/ ConnectAttempt
    \/ AfterConnect
    \/ ReadStatusLine
    \/ ReadHeaderLine
    \/ ReadBody
    \/ WriteResult
    \/ Fail
    \/ Dump

Spec == Init /\ [][Next]_vars

\* The call, with connect() and the return of try_to_connect always taking
\* place: connect() is a system call that returns.
FairSpec ==
    Init /\ [][Next]_vars /\ WF_vars(ConnectAttempt) /\ WF_vars(AfterConnect)

-----------------------------------------------------------------------------
(* The framing round trip: message_read_bsmtp on a captured transcript,   *)
(* then message_write of the message it framed                             *)

\* The bytes of a data section
DataBytes == {DOT, LF, CR, 120}

RECURSIVE SeqsUpTo(_, _)
SeqsUpTo(S, n) ==
    IF n = 0 THEN {<<>>}
    ELSE LET shorter == SeqsUpTo(S, n - 1)
         IN shorter \cup {Append(q, c) : q \in {t \in shorter : Len(t) = n - 1},
                                         c \in S}

\* A transcript whose first line is the DATA line: "DATA\n"
DataFirst == <<68, 65, 84, 65, LF>>

\* The captured transcripts: the commands up to the DATA line, then up to
\* MaxData bytes
Transcripts ==
    {p \o d : p \in {DataLF, DataCRLF, DataFirst},
              d \in SeqsUpTo(DataBytes, MaxData)}

\* struct message after clear_message and the capture of raw by
\* message_read: m->raw holds the transcript
Captured(raw) == [clear_message(FreshMessage) EXCEPT !.raw = RAW_BLOCK,
                                                     !.max_len = Len(raw)]

InitBsmtp ==
    /\ flags = [mode |-> "SPAMC_BSMTP_MODE", check_only |-> FALSE,
                safe_fallback |-> FALSE]
    /\ max_size = 0
    /\ input = <<>>
    /\ in_pos = 0
    /\ pc = "none"
    /\ m = FreshMessage
    /\ rawbuf = <<>>
    /\ obuf = <<>>
    /\ heap = NoBlocks
    /\ conn = ConnIdle
    /\ sock = NoSocket
    /\ fr = FrIdle
    /\ ret = "none"
    /\ result = "none"
    /\ output = <<>>
    /\ out_err = FALSE
    /\ g = NoHistory
    /\ wire = WireIdle
    /\ fl = FloatIdle
    /\ wc = WriteIdle
    /\ pm = PmIdle
    /\ \E t \in Transcripts, junk \in JunkPairs :
         bs = [phase |-> "captured", raw |-> t, junk |-> junk,
               m |-> Captured(t), rawbuf |-> t, rc |-> "none",
               written |-> <<>>]

\* message_read_bsmtp on the captured transcript
BsRead ==
    /\ bs.phase = "captured"
    /\ LET f == MessageReadFinish(bs.m, bs.rawbuf,
                                  [NoBlocks EXCEPT !.raw = "live"],
                                  Len(bs.raw), "SPAMC_BSMTP_MODE", bs.junk)
       IN bs' = [bs EXCEPT !.phase = IF f.rc = "EX_OK" THEN "framed"
                                     ELSE "rejected",
                           !.m = f.m, !.rawbuf = f.rawbuf, !.rc = f.rc]
    /\ UNCHANGED procVars
    /\ UNCHANGED <<wire, fl, wc, pm>>

\* message_write of the framed message, out = msg as message_read_bsmtp
\* left it, to a descriptor that takes everything
BsWrite ==
    /\ bs.phase = "framed"
    /\ LET w == MessageWriteCalls(bs.m, bs.rawbuf, <<>>)
       IN bs' = [bs EXCEPT !.phase = "written",
                           !.written = Concat(w.calls)]
    /\ UNCHANGED procVars
    /\ UNCHANGED <<wire, fl, wc, pm>>

NextBsmtp ==
    \/ BsRead
    \/ BsWrite

SpecBsmtp == InitBsmtp /\ [][NextBsmtp]_vars

-----------------------------------------------------------------------------
(* The two scans of message_read_bsmtp, one pass of a loop at a time       *)

\* The highest index of raw that the condition of the DATA search reads at
\* index i: && and || stop at the first operand that decides
SearchReads(raw, i) ==
    IF At(raw, i) # LF THEN i
    ELSE IF ~IsD(At(raw, i + 1)) THEN i + 1
    ELSE IF ~IsA(At(raw, i + 2)) THEN i + 2
    ELSE IF ~IsT(At(raw, i + 3)) THEN i + 3
    ELSE IF ~IsA(At(raw, i + 4)) THEN i + 4
    ELSE IF At(raw, i + 5) = CR THEN i + 6
    ELSE i + 5

\* The highest index of msg that one pass of the unstuffing loop reads at
\* index i: msg[i], and after a dot at the start of a line msg[i+1], and
\* msg[i+2] when msg[i+1] is a CR
UnstuffReads(msg, junk, i, prev) ==
    IF ~(prev = LF /\ At(msg, i) = DOT) THEN i
    ELSE IF MsgAt(msg, junk, i + 1) = CR THEN i + 2
    ELSE i + 1

\* m->msg[j++]: the index after j, the pass stores two bytes
NextJ_Twice(j) == j + 2

\* m->msg[j++]: the index after j
NextJ(j) == j + 1

InitScan ==
    /\ flags = [mode |-> "SPAMC_BSMTP_MODE", check_only |-> FALSE,
                safe_fallback |-> FALSE]
    /\ max_size = 0
    /\ input = <<>>
    /\ in_pos = 0
    /\ pc = "none"
    /\ m = FreshMessage
    /\ rawbuf = <<>>
    /\ obuf = <<>>
    /\ heap = NoBlocks
    /\ conn = ConnIdle
    /\ sock = NoSocket
    /\ fr = FrIdle
    /\ ret = "none"
    /\ result = "none"
    /\ output = <<>>
    /\ out_err = FALSE
    /\ g = NoHistory
    /\ wire = WireIdle
    /\ fl = FloatIdle
    /\ wc = WriteIdle
    /\ pm = PmIdle
    /\ \E t \in Transcripts, junk \in JunkPairs :
         bs = [phase |-> "search",
               raw |-> t,              \* the capture, raw_len = Len(raw)
               junk |-> junk,          \* what lies behind the capture
               i |-> 0, j |-> 0, prev |-> LF,
               pre_len |-> 0,
               msg |-> <<>>,           \* the bytes at m->msg
               msg_len |-> 0,
               post |-> -1, post_len |-> 0,
               rc |-> "none",
               hi |-> -1]              \* highest index of raw read so far

\* One pass of for(i=0; i<m->raw_len-6; i++), and after the loop
\* if(m->msg==NULL) return EX_DATAERR;
SearchStep ==
    /\ bs.phase = "search"
    /\ IF ~(bs.i < Len(bs.raw) - 6)
       THEN bs' = [bs EXCEPT !.phase = "rejected", !.rc = "EX_DATAERR"]
       ELSE LET read == [bs EXCEPT
                           !.hi = Max(@, SearchReads(bs.raw, bs.i))]
            IN IF IsDataAt(bs.raw, bs.i)
               THEN LET pre_len == PreLen(bs.raw, bs.i)
                    IN bs' = [read EXCEPT
                                !.phase = "unstuff",
                                !.pre_len = pre_len,
                                !.msg = SubSeq(bs.raw, pre_len + 1,
                                               Len(bs.raw)),
                                !.msg_len = Len(bs.raw) - pre_len,
                                !.i = 0, !.j = 0, !.prev = LF]
               ELSE bs' = [read EXCEPT !.i = @ + 1]
    /\ UNCHANGED procVars
    /\ UNCHANGED <<wire, fl, wc, pm>>

\* One pass of for(i=j=0; i<m->msg_len; i++), and after the loop
\* m->type=MESSAGE_BSMTP; m->out=m->msg; m->out_len=m->msg_len;
UnstuffStep ==
    /\ bs.phase = "unstuff"
    /\ IF ~(bs.i < bs.msg_len)
       THEN bs' = [bs EXCEPT !.phase = "framed", !.rc = "EX_OK"]
       ELSE LET i == bs.i
                read == [bs EXCEPT
                           !.hi = Max(@, bs.pre_len
                                         + UnstuffReads(bs.msg, bs.junk, i,
                                                        bs.prev))]
                dot == bs.prev = LF /\ At(bs.msg, i) = DOT
            IN IF dot /\ LoneDot(bs.msg, bs.junk, i)
               THEN bs' = [read EXCEPT !.phase = "framed", !.rc = "EX_OK",
                                       !.post = i,
                                       !.post_len = bs.msg_len - i,
                                       !.msg_len = bs.j]
               ELSE IF dot /\ MsgAt(bs.msg, bs.junk, i + 1) = DOT
               THEN bs' = [read EXCEPT !.prev = DOT, !.i = i + 1]
               ELSE bs' = [read EXCEPT !.prev = At(bs.msg, i),
                                       !.msg[bs.j + 1] = At(bs.msg, i),
                                       !.j = NextJ(bs.j),
                                       !.i = i + 1]
    /\ UNCHANGED procVars
    /\ UNCHANGED <<wire, fl, wc, pm>>

NextScan ==
    \/ SearchStep
    \/ UnstuffStep

SpecScan == InitScan /\ [][NextScan]_vars

-----------------------------------------------------------------------------
(* _locale_safe_string_to_float                                            *)

MINUS == 45
PLUS  == 43
ZERO  == 48

IsDigit(c) == ZERO <= c /\ c <= ZERO + 9

\* The position after the run of digits of s that starts at position i
RECURSIVE DigitsEnd(_, _)
DigitsEnd(s, i) ==
    IF i <= Len(s) /\ IsDigit(s[i]) THEN DigitsEnd(s, i + 1) ELSE i

\* The number written by the digits s[i], ..., s[j-1]
RECURSIVE DigitsValue(_, _, _)
DigitsValue(s, i, j) ==
    IF j <= i THEN 0 ELSE DigitsValue(s, i, j - 1) * 10 + (s[j - 1] - ZERO)

\* strtol(s + i - 1, &end, 10) for a string s without white space: an
\* optional sign and a run of digits; val is the number and end the
\* position of the first character that is not part of it.  Without a
\* digit nothing is consumed and val is 0.
strtol(s, i) ==
    LET signed == i <= Len(s) /\ s[i] \in {MINUS, PLUS}
        first == IF signed THEN i + 1 ELSE i
        last == DigitsEnd(s, first)
        val == DigitsValue(s, first, last)
    IN IF last = first THEN [val |-> 0, end |-> i]
       ELSE [val |-> IF signed /\ s[i] = MINUS THEN 0 - val ELSE val,
             end |-> last]

\* x * 10 in an int: the low 32 bits of the product, as a signed number
MulInt10(x) ==
    LET lo == (x % 65536) * 10
        hi == (x \div 65536) * 10 + (lo \div 65536)
    IN (((hi + 32768) % 65536) - 32768) * 65536 + (lo % 65536)

\* divider = 1; while (*cp != '\0') { divider *= 10; cp++; } over n
\* characters
RECURSIVE Divider(_)
Divider(n) == IF n = 0 THEN 1 ELSE MulInt10(Divider(n - 1))

\* The float whole + num / den
Float(whole, num, den) == [whole |-> whole, num |-> num, den |-> den]

\* _locale_safe_string_to_float(buf, siz) for the string buf
locale_safe_string_to_float(buf, siz) ==
    LET s == SubSeq(buf, 1, Min(Len(buf), siz - 1))
        is_neg == Len(s) > 0 /\ s[1] = MINUS
        head == strtol(s, 1)
        dot == head.end
    IN IF ~(dot <= Len(s) /\ s[dot] = DOT) THEN Float(head.val, 0, 1)
       ELSE LET cp == dot + 1
                postdot == strtol(s, cp).val
                divider == Divider(Len(s) - dot)
            IN IF postdot = 0 THEN Float(head.val, 0, 1)
               ELSE IF is_neg THEN Float(head.val, 0 - postdot, divider)
               ELSE Float(head.val, postdot, divider)

\* f < n for a float f and an integer n
FloatLess(f, n) ==
    IF f.den > 0 THEN f.num < (n - f.whole) * f.den
    ELSE f.num > (n - f.whole) * f.den

\* Most zeros at the start of the digits after the dot
MaxZeros == 9

\* n zeros
Zeros(n) == [i \in 1..n |-> ZERO]

\* The digit runs before the dot: "0", "3", "5", "7", "100"
IntParts == {<<48>>, <<51>>, <<53>>, <<55>>, <<49, 48, 48>>}

\* The digit runs after the dot: zeros, then nothing, "1", "2", "5" or "33"
FracParts ==
    {Zeros(k) \o t : k \in 0..MaxZeros,
                     t \in {<<>>, <<49>>, <<50>>, <<53>>, <<51, 51>>}}

\* What follows the number in a token: nothing, "x" or "abc"
Tails == {<<>>, <<120>>, <<97, 98, 99>>}

\* The tokens [-]digits[.digits] and what follows the number; frac is
\* <<DOT>> and the digits after it, or empty
Tokens ==
    {[sign |-> sg, int |-> ip, frac |-> fp, tail |-> tl] :
        sg \in {<<>>, <<MINUS>>}, ip \in IntParts,
        fp \in {<<>>} \cup {<<DOT>> \o f : f \in FracParts},
        tl \in Tails}

TokenText(t) == t.sign \o t.int \o t.frac \o t.tail

\* sizeof(s_str), sizeof(t_str), sizeof(versbuf)
StrSize == 20

InitFloat ==
    /\ flags = [mode |-> "SPAMC_RAW_MODE", check_only |-> FALSE,
                safe_fallback |-> FALSE]
    /\ max_size = 0
    /\ input = <<>>
    /\ in_pos = 0
    /\ pc = "none"
    /\ m = FreshMessage
    /\ rawbuf = <<>>
    /\ obuf = <<>>
    /\ heap = NoBlocks
    /\ conn = ConnIdle
    /\ sock = NoSocket
    /\ fr = FrIdle
    /\ ret = "none"
    /\ result = "none"
    /\ output = <<>>
    /\ out_err = FALSE
    /\ g = NoHistory
    /\ bs = BsIdle
    /\ wire = WireIdle
    /\ wc = WriteIdle
    /\ pm = PmIdle
    /\ \E t \in Tokens : fl = [phase |-> "token", tok |-> t]

\* m->score = _locale_safe_string_to_float (s_str, 20);
ParseFloat ==
    /\ fl.phase = "token"
    /\ fl' = [phase |-> "parsed", tok |-> fl.tok,
              val |-> locale_safe_string_to_float(TokenText(fl.tok), StrSize)]
    /\ UNCHANGED procVars
    /\ UNCHANGED <<bs, wire, wc, pm>>

NextFloat == ParseFloat

SpecFloat == InitFloat /\ [][NextFloat]_vars

-----------------------------------------------------------------------------
(* The exchange with the daemon, one system call at a time: the request   *)
(* of _message_filter, timeout_read, _spamc_read_full_line and the parse  *)
(* of the status line                                                      *)

SP  == 32
NUL == 0

\* "SPAMC/1.3"
PROTOCOL_VERSION == <<83, 80, 65, 77, 67, 47, 49, 46, 51>>
\* "CHECK"
Txt_CHECK == <<67, 72, 69, 67, 75>>
\* "REPORT_IFSPAM"
Txt_REPORT_IFSPAM == <<82, 69, 80, 79, 82, 84, 95, 73, 70, 83, 80, 65, 77>>
\* "REPORT"
Txt_REPORT == <<82, 69, 80, 79, 82, 84>>
\* "SYMBOLS"
Txt_SYMBOLS == <<83, 89, 77, 66, 79, 76, 83>>
\* "PROCESS"
Txt_PROCESS == <<80, 82, 79, 67, 69, 83, 83>>
\* "User: "
Txt_User == <<85, 115, 101, 114, 58, 32>>
\* "Content-length: "
Txt_ContentLength == <<67, 111, 110, 116, 101, 110, 116, 45, 108, 101, 110, 103, 116, 104, 58, 32>>
\* "SPAMD/"
Txt_SPAMD == <<83, 80, 65, 77, 68, 47>>
\* "SPAMD/1.1 0 EX_OK\r\nContent-length: 2\r\n\r\n"
RespGood == <<83, 80, 65, 77, 68, 47, 49, 46, 49, 32, 48, 32, 69, 88, 95, 79, 75, 13, 10, 67, 111, 110, 116, 101, 110, 116, 45, 108, 101, 110, 103, 116, 104, 58, 32, 50, 13, 10, 13, 10>>
\* "SPAMD/1.1 0 EX_OK\n\n"
RespBare == <<83, 80, 65, 77, 68, 47, 49, 46, 49, 32, 48, 32, 69, 88, 95, 79, 75, 10, 10>>
\* "SPAMD/0.9 0 EX_OK\r\n\r\n"
RespOld == <<83, 80, 65, 77, 68, 47, 48, 46, 57, 32, 48, 32, 69, 88, 95, 79, 75, 13, 10, 13, 10>>
\* "HTTP/1.0 200\r\n"
RespOther == <<72, 84, 84, 80, 47, 49, 46, 48, 32, 50, 48, 48, 13, 10>>
\* "u"
UserName == <<117>>

CRLF == <<CR, LF>>

\* Stands for bufsiz (8188 in _message_filter): the room for the request
\* header and for a response line
bufsiz == 60

\* Longest message body of a request
MaxBody == 11

\* m->timeout when it is set, in time units
Timeout == 2

\* Longest time the model lets a call stay blocked in all
MaxBlocked == Timeout + 1

\* The operation flags of _message_filter
OpFlags == {"SPAMC_CHECK_ONLY", "SPAMC_REPORT_IFSPAM", "SPAMC_REPORT",
            "SPAMC_SYMBOLS"}

\* The keyword of the command line: PROCESS whatever the flags are
Command_AlwaysProcess(fs) == Txt_PROCESS

\* if(flags & SPAMC_CHECK_ONLY) ... else if(flags & SPAMC_REPORT_IFSPAM)
\* ... else if(flags & SPAMC_REPORT) ... else if(flags & SPAMC_SYMBOLS) ...
\* else "PROCESS"
Command(fs) ==
    IF "SPAMC_CHECK_ONLY" \in fs THEN Txt_CHECK
    ELSE IF "SPAMC_REPORT_IFSPAM" \in fs THEN Txt_REPORT_IFSPAM
    ELSE IF "SPAMC_REPORT" \in fs THEN Txt_REPORT
    ELSE IF "SPAMC_SYMBOLS" \in fs THEN Txt_SYMBOLS
    ELSE Txt_PROCESS

\* The username argument: NULL or a string
NoUser == [null |-> TRUE, text |-> <<>>]
User(text) == [null |-> FALSE, text |-> text]

\* The request header as the snprintf calls of _message_filter build it
RequestHeader(fs, username, msg_len) ==
    Command(fs) \o <<SP>> \o PROTOCOL_VERSION \o CRLF
    \o (IF username.null THEN <<>> ELSE Txt_User \o username.text \o CRLF)
    \o Txt_ContentLength \o Digits(msg_len) \o CRLF
    \o CRLF

\* A byte of buf that nothing has been stored in
Indeterminate == -1

\* char buf[8192] with the string text at its start
BufWith(text) ==
    [i \in 1..bufsiz |-> IF i <= Len(text) THEN text[i]
                         ELSE IF i = Len(text) + 1 THEN NUL
                         ELSE Indeterminate]

\* The string at the start of buf
RECURSIVE CString(_, _)
CString(buf, i) ==
    IF i > Len(buf) \/ buf[i] = NUL THEN <<>>
    ELSE <<buf[i]>> \o CString(buf, i + 1)

IsSpace(c) == c \in {SP, 9, LF, 11, 12, CR}

\* The position after the white space of s that starts at position i
RECURSIVE SkipSpace(_, _)
SkipSpace(s, i) ==
    IF i <= Len(s) /\ IsSpace(s[i]) THEN SkipSpace(s, i + 1) ELSE i

\* The position after the run of characters other than white space
RECURSIVE WordEnd(_, _)
WordEnd(s, i) ==
    IF i <= Len(s) /\ ~IsSpace(s[i]) THEN WordEnd(s, i + 1) ELSE i

\* sscanf(buf, "SPAMD/%s %d %*s", versbuf, &response): the number of
\* fields assigned, and versbuf
ScanStatus(s) ==
    IF ~(Len(s) >= Len(Txt_SPAMD)
         /\ SubSeq(s, 1, Len(Txt_SPAMD)) = Txt_SPAMD)
    THEN [n |-> 0, versbuf |-> <<>>]
    ELSE LET a == SkipSpace(s, Len(Txt_SPAMD) + 1)
             b == WordEnd(s, a)
             c == SkipSpace(s, b)
         IN IF b = a THEN [n |-> 0, versbuf |-> <<>>]
            ELSE [n |-> IF strtol(s, c).end = c THEN 1 ELSE 2,
                  versbuf |-> SubSeq(s, a, b - 1)]

\* What _message_filter makes of the status line in buf: EX_OK to go on, or
\* the failure value
StatusLine(buf) ==
    LET f == ScanStatus(CString(buf, 1))
    IN IF f.n # 2 THEN "EX_PROTOCOL"
       ELSE IF FloatLess(locale_safe_string_to_float(f.versbuf, StrSize), 1)
       THEN "EX_PROTOCOL"
       ELSE "EX_OK"

\* "SPAMD/0.1500000000 0 EX_OK\r\n\r\n"
RespFraction ==
    <<83, 80, 65, 77, 68, 47, 48, 46, 49, 53, 48, 48, 48, 48, 48, 48, 48, 48, 32, 48, 32, 69, 88, 95, 79, 75, 13, 10, 13, 10>>

\* "SPAMD/1.1 0 EX_OK\r\nSpam: True ; 5.0 / 5.0\r\n\r\n"
RespSpam ==
    <<83, 80, 65, 77, 68, 47, 49, 46, 49, 32, 48, 32, 69, 88, 95, 79, 75, 13, 10, 83, 112, 97, 109, 58, 32, 84, 114, 117, 101, 32, 59, 32, 53, 46, 48, 32, 47, 32, 53, 46, 48, 13, 10, 13, 10>>

\* "Spam:"
Txt_Spam == <<83, 112, 97, 109, 58>>

\* The position after a %<w>s field that starts at position i
WidthEnd(s, i, w) == Min(WordEnd(s, i), i + w)

\* sscanf(buf, "Spam: %5s ; %20s / %20s", is_spam, s_str, t_str): the
\* number of fields assigned, and is_spam
ScanSpam(s) ==
    IF ~(Len(s) >= Len(Txt_Spam) /\ SubSeq(s, 1, Len(Txt_Spam)) = Txt_Spam)
    THEN [n |-> 0, is_spam |-> <<>>]
    ELSE LET a == SkipSpace(s, Len(Txt_Spam) + 1)
             b == WidthEnd(s, a, 5)
             c == SkipSpace(s, b)
             d == SkipSpace(s, c + 1)
             e == WidthEnd(s, d, StrSize)
             f == SkipSpace(s, e)
             h == SkipSpace(s, f + 1)
             word == SubSeq(s, a, b - 1)
         IN IF b = a THEN [n |-> 0, is_spam |-> <<>>]
            ELSE IF ~(c <= Len(s) /\ s[c] = 59) \/ e = d
            THEN [n |-> 1, is_spam |-> word]
            ELSE IF ~(f <= Len(s) /\ s[f] = 47) \/ WidthEnd(s, h, StrSize) = h
            THEN [n |-> 2, is_spam |-> word]
            ELSE [n |-> 3, is_spam |-> word]

\* strcasecmp("true", is_spam) == 0 ? EX_ISSPAM : EX_NOTSPAM
SpamVerdict(word) ==
    IF /\ Len(word) = 4
       /\ word[1] \in {84, 116} /\ word[2] \in {82, 114}
       /\ word[3] \in {85, 117} /\ word[4] \in {69, 101}
    THEN "EX_ISSPAM" ELSE "EX_NOTSPAM"

\* A response line of bufsiz bytes without a newline
RespLong == [i \in 1..bufsiz |-> 120]

\* What the daemon sends
Responses ==
    {RespGood, RespBare, RespOld, RespOther, RespFraction, RespLong}

\* The requests: operation flags, username and message body
WireRequests ==
    {[fs |-> fs, username |-> u, msg |-> [i \in 1..n |-> InputByte(i)]] :
        fs \in {{}} \cup {{f} : f \in OpFlags}
                \cup {{"SPAMC_CHECK_ONLY", "SPAMC_REPORT"}},
        u \in {NoUser, User(UserName), User(RespLong)},
        n \in {1, MaxBody}}

WireCall(rq, t, r) ==
    [fs |-> rq.fs, username |-> rq.username, msg |-> rq.msg,
     timeout |-> t, resp |-> r]

\* The calls of _message_filter that the model runs: every request with
\* the good response, every response and timeout with one request, and a
\* check-only request answered with a Spam header
WireCalls ==
    {WireCall(rq, Timeout, RespGood) : rq \in WireRequests}
    \cup {WireCall([fs |-> {}, username |-> NoUser,
                    msg |-> <<InputByte(1)>>], t, r) :
             t \in {0, Timeout}, r \in Responses}
    \cup {WireCall([fs |-> {"SPAMC_CHECK_ONLY"}, username |-> NoUser,
                    msg |-> <<InputByte(1)>>], t, RespSpam) :
             t \in {0, Timeout}}

InitWire ==
    /\ flags = [mode |-> "SPAMC_RAW_MODE", check_only |-> FALSE,
                safe_fallback |-> FALSE]
    /\ max_size = 0
    /\ input = <<>>
    /\ in_pos = 0
    /\ pc = "none"
    /\ m = FreshMessage
    /\ rawbuf = <<>>
    /\ obuf = <<>>
    /\ heap = NoBlocks
    /\ conn = ConnIdle
    /\ sock = NoSocket
    /\ fr = FrIdle
    /\ ret = "none"
    /\ result = "none"
    /\ output = <<>>
    /\ out_err = FALSE
    /\ g = NoHistory
    /\ bs = BsIdle
    /\ fl = FloatIdle
    /\ wc = WriteIdle
    /\ pm = PmIdle
    /\ \E c \in WireCalls :
         wire = [phase |-> "build",
                 call |-> c,
                 buf |-> [i \in 1..bufsiz |-> Indeterminate],
                 len |-> 0,            \* len of _message_filter
                 rl |-> 0,             \* len of _spamc_read_full_line
                 failureval |-> "none",
                 is_spam |-> "none",   \* m->is_spam
                 libspamc_timeout |-> 0,
                 pos |-> 0,            \* bytes of the response delivered
                 eof |-> FALSE,        \* a read() has returned 0
                 \* history, not program state:
                 sent |-> <<>>,        \* the bytes the socket has taken
                 wr_err |-> FALSE,     \* a full_write has failed
                 wr_closed |-> FALSE,  \* shutdown(sock, SHUT_WR) was called
                 rd |-> FALSE,         \* a read() of the socket was made
                 parsed |-> FALSE,     \* the status line was parsed
                 status |-> <<>>,      \* the status line that was parsed
                 status_end |-> 0,     \* pos when it was parsed
                 blocked |-> 0,        \* time spent in blocking calls
                 stale_ok |-> FALSE]   \* a line was returned although its
                                       \* last read() delivered nothing

\* goto failure: what the code after the label does to the state kept here
FailureLabel(wr, val) ==
    [wr EXCEPT !.phase = "failed", !.failureval = val,
               !.libspamc_timeout = 0]

\* m->is_spam=EX_TOOBIG, the snprintf calls that build the request header
\* (a header that does not fit: return EX_OSERR), and
\* libspamc_timeout = m->timeout
WireBuild ==
    /\ wire.phase = "build"
    /\ LET c == wire.call
           hdr == RequestHeader(c.fs, c.username, Len(c.msg))
       IN IF Len(hdr) >= bufsiz
          THEN wire' = [wire EXCEPT !.phase = "failed",
                                    !.is_spam = "EX_TOOBIG",
                                    !.failureval = "EX_OSERR"]
          ELSE wire' = [wire EXCEPT !.phase = "connect",
                                    !.is_spam = "EX_TOOBIG",
                                    !.buf = BufWith(hdr),
                                    !.len = Len(hdr),
                                    !.libspamc_timeout = c.timeout]
    /\ UNCHANGED procVars
    /\ UNCHANGED <<bs, fl, wc, pm>>

\* try_to_connect returns after d time units in connect() and sleep(); no
\* alarm is armed.  When it does not return EX_OK: free(m->out); ...
\* return i;
WireConnect ==
    /\ wire.phase = "connect"
    /\ \E d \in 0..MaxBlocked :
        /\ wire.blocked + d <= MaxBlocked
        /\ \/ wire' = [wire EXCEPT !.phase = "send_header",
                                   !.blocked = @ + d]
           \/ \E e \in ConnectErrnos :
                wire' = [wire EXCEPT !.phase = "failed",
                                     !.failureval = ConnectFailure(e),
                                     !.blocked = @ + d]
    /\ UNCHANGED procVars
    /\ UNCHANGED <<bs, fl, wc, pm>>

\* How many bytes a full_write of len bytes can have written when it
\* returns: all of them, or fewer when a write() reported an error
Written(len) == {len} \cup 0..Min(MaxPartial, len - 1)

\* full_write(sock, (unsigned char *) buf, len); the result is not looked
\* at
WireSendHeader ==
    /\ wire.phase = "send_header"
    /\ \E k \in Written(wire.len) :
        wire' = [wire EXCEPT !.phase = "send_body",
                             !.sent = @ \o SubSeq(wire.buf, 1, k),
                             !.wr_err = @ \/ k < wire.len]
    /\ UNCHANGED procVars
    /\ UNCHANGED <<bs, fl, wc, pm>>

\* full_write(sock, (unsigned char *) m->msg, m->msg_len); the result is
\* not looked at
WireSendBody ==
    /\ wire.phase = "send_body"
    /\ \E k \in Written(Len(wire.call.msg)) :
        wire' = [wire EXCEPT !.phase = "shutdown",
                             !.sent = @ \o SubSeq(wire.call.msg, 1, k),
                             !.wr_err = @ \/ k < Len(wire.call.msg)]
    /\ UNCHANGED procVars
    /\ UNCHANGED <<bs, fl, wc, pm>>

\* shutdown(sock, SHUT_WR);
WireShutdown ==
    /\ wire.phase = "shutdown"
    /\ wire' = [wire EXCEPT !.phase = "status", !.wr_closed = TRUE,
                            !.rl = 0]
    /\ UNCHANGED procVars
    /\ UNCHANGED <<bs, fl, wc, pm>>

\* What one timeout_read(read, sock, buf+len, 1) can give: n is the value
\* returned and d the time the call was blocked.  alarm(libspamc_timeout)
\* is called at the start of every timeout_read when libspamc_timeout > 0,
\* and the signal makes read() return -1 after that time; alarm(0) follows
\* the read.
TimeoutReads(wr) ==
    LET timeout == wr.call.timeout
        waits == IF timeout > 0 THEN 0..(timeout - 1) ELSE 0..MaxBlocked
        more == wr.pos < Len(wr.call.resp)
    IN IF wr.eof THEN {[n |-> 0, d |-> 0]}
       ELSE {[n |-> 1, d |-> d] : d \in IF more THEN waits ELSE {}}
            \cup {[n |-> 0, d |-> d] : d \in waits}
            \cup {[n |-> -1, d |-> d] : d \in waits}
            \cup (IF timeout > 0 THEN {[n |-> -1, d |-> timeout]} ELSE {})

\* if(buf[len]=='\n')
LineEnds(c, bytesread) == c = LF

\* _message_filter after _spamc_read_full_line returned EX_OK with
\* *lenp = n: the parse of the status line, or one pass of the loop over
\* the header lines (what _handle_spamd_header returns does not end it)
LineRead(wr, n) ==
    IF wr.phase = "status"
    THEN LET rc == StatusLine(wr.buf)
             got == [wr EXCEPT !.len = n, !.parsed = TRUE,
                               !.status = CString(wr.buf, 1),
                               !.status_end = wr.pos]
         IN IF rc = "EX_OK"
            THEN [got EXCEPT !.phase = "headers", !.is_spam = "EX_TOOBIG"]
            ELSE FailureLabel(got, rc)
    ELSE IF n = 0 /\ wr.buf[1] = NUL
    THEN [wr EXCEPT !.phase = "headers_done", !.len = n]
    ELSE LET f == ScanSpam(CString(wr.buf, 1))
         IN [wr EXCEPT !.len = n,
                       !.is_spam = IF f.n = 3 THEN SpamVerdict(f.is_spam)
                                   ELSE @]

\* One pass of the loop for(len=0; len<bufsiz-1; len++) of
\* _spamc_read_full_line, and when that returns, what _message_filter does
\* with the value.  A byte of buf that nothing was stored in may or may
\* not be a newline.
WireRead ==
    /\ wire.phase \in {"status", "headers"}
    /\ \E r \in TimeoutReads(wire) :
        /\ wire.blocked + r.d <= MaxBlocked
        /\ \E held \in (IF wire.buf[wire.rl + 1] = Indeterminate
                        THEN {LF, 120} ELSE {wire.buf[wire.rl + 1]}) :
            LET len == wire.rl
                c == IF r.n = 1 THEN wire.call.resp[wire.pos + 1] ELSE held
                stored == IF r.n = 1 THEN [wire.buf EXCEPT ![len + 1] = c]
                          ELSE wire.buf
                read == [wire EXCEPT !.blocked = @ + r.d,
                                     !.rd = TRUE,
                                     !.pos = IF r.n = 1 THEN @ + 1 ELSE @,
                                     !.eof = @ \/ r.n = 0]
            IN IF LineEnds(c, r.n)
               THEN LET n == IF len > 0 /\ stored[len] = CR THEN len - 1
                             ELSE len
                        line == [stored EXCEPT ![len + 1] = NUL,
                                               ![n + 1] = NUL]
                    IN wire' = LineRead([read EXCEPT
                                           !.buf = line, !.rl = 0,
                                           !.stale_ok = @ \/ r.n <= 0], n)
               ELSE IF r.n <= 0
               THEN wire' = FailureLabel(read, "EX_IOERR")
               ELSE IF len + 1 >= bufsiz - 1
               THEN wire' = FailureLabel([read EXCEPT !.buf = stored],
                                         "EX_TOOBIG")
               ELSE wire' = [read EXCEPT !.buf = stored, !.rl = len + 1]
    /\ UNCHANGED procVars
    /\ UNCHANGED <<bs, fl, wc, pm>>

\* After the header loop of a check-only call: if (m->is_spam ==
\* EX_TOOBIG) goto failure; else return EX_OK.  What follows the header
\* loop of the other calls is in ReadBody.
WireCheckOnly ==
    /\ wire.phase = "headers_done"
    /\ "SPAMC_CHECK_ONLY" \in wire.call.fs
    /\ wire' = IF wire.is_spam = "EX_TOOBIG"
               THEN FailureLabel(wire, "EX_PROTOCOL")
               ELSE [wire EXCEPT !.phase = "returned",
                                 !.failureval = "EX_OK"]
    /\ UNCHANGED procVars
    /\ UNCHANGED <<bs, fl, wc, pm>>

NextWire ==
    \/ WireBuild
    \/ WireConnect
    \/ WireSendHeader
    \/ WireSendBody
    \/ WireShutdown
    \/ WireRead
    \/ WireCheckOnly

SpecWire == InitWire /\ [][NextWire]_vars

-----------------------------------------------------------------------------
(* full_write (utils.c), one write() at a time                             *)

\* Longest buffer given to full_write
MaxWrite == 5

\* errno after a write() that returned -1
WriteErrnos == {"EINTR", "EAGAIN", "EPIPE", "ENOSPC"}

\* if(EINTR == errno || EAGAIN == errno) continue;
Retried(errno) == errno \in {"EINTR", "EAGAIN"}

\* What write(fd, buf+total, n) can give: it takes 1..n bytes, takes none
\* and returns 0, or returns -1 with an errno
WriteResults(n) ==
    {[n |-> k, errno |-> "none"] : k \in 0..n}
    \cup {[n |-> -1, errno |-> e] : e \in WriteErrnos}

InitFullWrite ==
    /\ flags = [mode |-> "SPAMC_RAW_MODE", check_only |-> FALSE,
                safe_fallback |-> FALSE]
    /\ max_size = 0
    /\ input = <<>>
    /\ in_pos = 0
    /\ pc = "none"
    /\ m = FreshMessage
    /\ rawbuf = <<>>
    /\ obuf = <<>>
    /\ heap = NoBlocks
    /\ conn = ConnIdle
    /\ sock = NoSocket
    /\ fr = FrIdle
    /\ ret = "none"
    /\ result = "none"
    /\ output = <<>>
    /\ out_err = FALSE
    /\ g = NoHistory
    /\ bs = BsIdle
    /\ wire = WireIdle
    /\ fl = FloatIdle
    /\ pm = PmIdle
    /\ \E len \in 0..MaxWrite :
         wc = [phase |-> "loop",
               buf |-> [i \in 1..len |-> InputByte(i)],
               len |-> len,
               total |-> 0,
               thistime |-> 0,
               rv |-> 0,               \* the value returned
               \* history, not program state:
               errno |-> "none",       \* errno of the last write()
               taken |-> <<>>,         \* the bytes the descriptor took
               chunks |-> <<>>,        \* how many it took in each write()
               calls |-> 0]            \* parity of the number of write()s

\* One pass of for (total = 0; total < len; ): the write() and what follows
\* it
WritePass ==
    /\ wc.phase = "loop"
    /\ wc.total < wc.len
    /\ \E r \in WriteResults(wc.len - wc.total) :
         LET called == [wc EXCEPT !.thistime = r.n, !.errno = r.errno,
                                  !.calls = 1 - @]
         IN IF r.n < 0
            THEN IF Retried(r.errno) THEN wc' = called
                 ELSE wc' = [called EXCEPT !.phase = "returned",
                                           !.rv = r.n]
            ELSE wc' = [called EXCEPT
                          !.total = @ + r.n,
                          !.taken = @ \o SubSeq(wc.buf, wc.total + 1,
                                                wc.total + r.n),
                          !.chunks = IF r.n > 0 THEN Append(@, r.n) ELSE @]
    /\ UNCHANGED procVars
    /\ UNCHANGED <<bs, wire, fl, pm>>

\* The loop ends: return total;
WriteReturn ==
    /\ wc.phase = "loop"
    /\ ~(wc.total < wc.len)
    /\ wc' = [wc EXCEPT !.phase = "returned", !.rv = wc.total]
    /\ UNCHANGED procVars
    /\ UNCHANGED <<bs, wire, fl, pm>>

NextFullWrite ==
    \/ WritePass
    \/ WriteReturn

SpecFullWrite == InitFullWrite /\ [][NextFullWrite]_vars

\* full_write with every write() returning: write() is a system call on a
\* descriptor that blocks at most for a time
FairSpecFullWrite ==
    InitFullWrite /\ [][NextFullWrite]_vars /\ WF_vars(NextFullWrite)

-----------------------------------------------------------------------------
(* process_message of the standalone client (spamd/spamc.c)                *)

\* Longest standard input given to the standalone client
MaxStdin == 4

\* switch(origherr) of process_message; no case for any other value, and
\* the function goes on to memcpy from hent->h_addr with hent NULL
HostFailure(origherr) ==
    CASE origherr \in {"HOST_NOT_FOUND", "NO_ADDRESS", "NO_RECOVERY"} ->
            "EX_NOHOST"
      [] origherr = "TRY_AGAIN" -> "EX_TEMPFAIL"
      [] OTHER -> "crashed"

\* What try_to_connect of spamc.c returns
SpamcConnectResults ==
    {"EX_OK", "EX_SOFTWARE", "EX_NOPERM", "EX_OSERR", "EX_UNAVAILABLE"}

\* What read_message returns: EX_PROTOCOL for a bad status line, else the
\* response code of the status line (EX_OK when no status line came)
ReadMessageResults == {"EX_OK", "EX_PROTOCOL", "EX_TEMPFAIL"}

\* What read(in, buf, n) can give with `left' bytes still to come: 1..n of
\* them, 0 at the end of the input, or -1
SpamcReads(left, n) ==
    (IF left = 0 THEN {0} ELSE 1..Min(left, n)) \cup {-1}

\* What write(out, buf, n) can give: 0..n bytes taken, or -1
SpamcWrites(n) == -1..n

\* return dump_message(..) of the fallback branch; after the dump of the
\* too-big branch, exstatus = 0 and return exstatus
AfterDump(caller, dumped) ==
    IF caller = "fallback" THEN dumped ELSE "EX_OK"

InitSpamc ==
    /\ flags = [mode |-> "SPAMC_RAW_MODE", check_only |-> FALSE,
                safe_fallback |-> FALSE]
    /\ max_size = 0
    /\ input = <<>>
    /\ in_pos = 0
    /\ pc = "none"
    /\ m = FreshMessage
    /\ rawbuf = <<>>
    /\ obuf = <<>>
    /\ heap = NoBlocks
    /\ conn = ConnIdle
    /\ sock = NoSocket
    /\ fr = FrIdle
    /\ ret = "none"
    /\ result = "none"
    /\ output = <<>>
    /\ out_err = FALSE
    /\ g = NoHistory
    /\ bs = BsIdle
    /\ wire = WireIdle
    /\ fl = FloatIdle
    /\ wc = WriteIdle
    /\ \E len \in 0..MaxStdin, sf \in {0, -1} :
         pm = [phase |-> "start",
               SAFE_FALLBACK |-> sf,        \* -1 after the option -f
               max_size |-> MaxLenSmall,
               stdin |-> [i \in 1..len |-> InputByte(i)],
               pos |-> 0,                   \* bytes of stdin read
               stdout |-> <<>>,             \* bytes stdout has taken
               exstatus |-> "none",
               caller |-> "none",           \* the branch that dumps
               rv |-> "none",               \* the value returned
               \* history, not program state:
               connected |-> "none",        \* what try_to_connect returned
               io_err |-> FALSE,            \* a read() or write() failed
               stale |-> FALSE]             \* a write() was given a length
                                            \* beyond its buffer

\* inet_addr and gethostbyname: the address is numeric or resolves, or
\* gethostbyname fails and process_message returns
SpamcLookup ==
    /\ pm.phase = "start"
    /\ \/ pm' = [pm EXCEPT !.phase = "resolved"]
       \/ \E origherr \in HErrnos :
            pm' = IF HostFailure(origherr) = "crashed"
                  THEN [pm EXCEPT !.phase = "crashed"]
                  ELSE [pm EXCEPT !.phase = "returned",
                                  !.rv = HostFailure(origherr)]
    /\ UNCHANGED procVars
    /\ UNCHANGED <<bs, wire, fl, wc>>

\* exstatus = try_to_connect(..) and the branch taken on it
SpamcConnect ==
    /\ pm.phase = "resolved"
    /\ \E e \in SpamcConnectResults :
         LET tried == [pm EXCEPT !.exstatus = e, !.connected = e]
         IN pm' = IF e = "EX_OK"
                  THEN [tried EXCEPT !.phase = "send"]
                  ELSE IF pm.SAFE_FALLBACK # 0
                  THEN [tried EXCEPT !.phase = "dump",
                                     !.caller = "fallback"]
                  ELSE [tried EXCEPT !.phase = "returned", !.rv = e]
    /\ UNCHANGED procVars
    /\ UNCHANGED <<bs, wire, fl, wc>>

\* send_message and what process_message does with its result: the first
\* read() of up to max_size+1024 bytes; more than max_size (as a size_t,
\* so -1 too) is ESC_MSGTOOBIG and msg_buf goes to stdout; else the whole
\* input goes to the daemon and read_message copies the response
SpamcSend ==
    /\ pm.phase = "send"
    /\ \E bytes \in SpamcReads(Len(pm.stdin) - pm.pos, pm.max_size + 1024) :
         IF bytes < 0
         THEN \* amount_read = -1: write(STDOUT_FILENO, msg_buf, -1)
              pm' = [pm EXCEPT !.phase = "dump", !.caller = "toobig",
                               !.exstatus = "ESC_MSGTOOBIG",
                               !.io_err = TRUE, !.stale = TRUE]
         ELSE IF bytes > pm.max_size
         THEN \E wrote \in SpamcWrites(bytes) :
                pm' = [pm EXCEPT
                         !.phase = "dump", !.caller = "toobig",
                         !.exstatus = "ESC_MSGTOOBIG",
                         !.pos = @ + bytes,
                         !.stdout = @ \o SubSeq(pm.stdin, pm.pos + 1,
                                                pm.pos + Max(wrote, 0)),
                         !.io_err = @ \/ wrote # bytes]
         ELSE \E e \in ReadMessageResults, n \in 0..1 :
                pm' = [pm EXCEPT
                         !.phase = "returned",
                         !.pos = Len(pm.stdin),
                         !.stdout = [i \in 1..n |-> DaemonByte(i)],
                         !.exstatus = e, !.rv = e]
    /\ UNCHANGED procVars
    /\ UNCHANGED <<bs, wire, fl, wc>>

\* One pass of the loop of dump_message, or its end.  bytes is a size_t:
\* a read() that returns -1 passes the test > 0, and write() is given
\* that length; it returns -1, which compares equal, or takes stale bytes
SpamcDumpPass ==
    /\ pm.phase = "dump"
    /\ \E bytes \in SpamcReads(Len(pm.stdin) - pm.pos, DumpBufSize) :
         IF bytes = 0
         THEN pm' = [pm EXCEPT !.phase = "returned",
                               !.rv = AfterDump(pm.caller, "EX_OK")]
         ELSE IF bytes < 0
         THEN \/ pm' = [pm EXCEPT !.io_err = TRUE]
              \/ pm' = [pm EXCEPT !.io_err = TRUE, !.stale = TRUE,
                                  !.phase = "returned",
                                  !.rv = AfterDump(pm.caller, "EX_IOERR")]
         ELSE \E wrote \in SpamcWrites(bytes) :
                LET copied ==
                      [pm EXCEPT
                         !.pos = @ + bytes,
                         !.stdout = @ \o SubSeq(pm.stdin, pm.pos + 1,
                                                pm.pos + Max(wrote, 0))]
                IN pm' = IF wrote # bytes
                         THEN [copied EXCEPT
                                 !.io_err = TRUE, !.phase = "returned",
                                 !.rv = AfterDump(pm.caller, "EX_IOERR")]
                         ELSE copied
    /\ UNCHANGED procVars
    /\ UNCHANGED <<bs, wire, fl, wc>>

NextSpamc ==
    \/ SpamcLookup
    \/ SpamcConnect
    \/ SpamcSend
    \/ SpamcDumpPass

SpecSpamc == InitSpamc /\ [][NextSpamc]_vars

-----------------------------------------------------------------------------
(* Properties *)

\* _message_filter has returned to a call that is not check-only, and
\* message_process has not yet acted on what it returned
FilterReturned ==
    /\ pc \in {"write", "FAIL"}
    /\ g.fret # "none"
    /\ ~g.failed
    /\ ~flags.check_only

\* The response ended its headers and either gave no Content-length or gave
\* one that differs from the number of body bytes read
LengthMismatch ==
    /\ g.hdr_end
    /\ (m.content_length < 0 \/ m.content_length # g.body_rcvd)

\* No byte of the daemon's body is in the output
NoDaemonByte == \A i \in 1..Len(output) : output[i] < DaemonByte(1)

C2_CheckOnlyFailure ==
    pc \in {"done", "crashed"} /\ flags.check_only /\ g.failed
        => /\ pc = "done"
           /\ result = "EX_NOTSPAM"
           /\ (~out_err => output = ZeroRecord)

\* The call of C3 has ended: Raw mode, safe-fallback set, not check-only,
\* an input of 1..max_len bytes, every connect() refused, and an output
\* descriptor that took what it was given
C3_Case ==
    /\ pc = "done"
    /\ flags.mode = "SPAMC_RAW_MODE"
    /\ flags.safe_fallback
    /\ ~flags.check_only
    /\ g.refused
    /\ 1 <= Len(input) /\ Len(input) <= max_size
    /\ ~out_err

\* C3: in Raw mode with safe-fallback set and not check-only, when every
\* connect attempt is refused and the input is 1..max_len bytes, the output
\* is exactly the input and message_process returns EX_UNAVAILABLE.
C3_FallbackEcho == C3_Case => output = input /\ result = "EX_UNAVAILABLE"

\* Such a call with an input of max_len bytes, which took two reads
C3_Witness ==
    /\ C3_Case
    /\ Len(input) = max_size
    /\ Len(input) >= 2
    /\ g.attempts = MAX_CONNECT_RETRIES
    /\ output = input
    /\ result = "EX_UNAVAILABLE"

\* C4: when SPAMC_SAFE_FALLBACK is not set and a call that is not check-only
\* fails, nothing is written to the output and the failure classification
\* is returned.
C4_NoOutputWithoutFallback ==
    pc = "done" /\ ~flags.safe_fallback /\ ~flags.check_only /\ g.failed
        => output = <<>> /\ result = ret

\* C5: a call that succeeds returns the verdict the message held when it
\* was written: for check-only, EX_ISSPAM if the token of the last Spam
\* header is "true" in any case and EX_NOTSPAM otherwise; for any other
\* call EX_OUTPUTMESSAGE; never EX_TOOBIG.
C5_ReturnsVerdict ==
    pc = "done" /\ ~g.failed /\ g.wrote # "none"
        => /\ result = g.wrote
           /\ result # "EX_TOOBIG"
           /\ result = IF ~flags.check_only THEN "EX_OUTPUTMESSAGE"
                       ELSE IF StrCaseEq(LowerTrue, g.tok) THEN "EX_ISSPAM"
                       ELSE "EX_NOTSPAM"

\* The transcript was accepted, its data section ends with the line ".\n"
\* inside the capture, and every line of the data section before it that
\* starts with a dot starts with two: a data section as a sender stuffs it
C6_Stuffed ==
    /\ bs.phase = "written"
    /\ bs.m.post # NULL
    /\ LET first == bs.m.pre_len
           last == bs.m.post.off
       IN /\ last + 1 < Len(bs.raw)
          /\ At(bs.raw, last + 1) = LF
          /\ \A i \in first..(last - 1) :
                (i = first \/ At(bs.raw, i - 1) = LF) /\ At(bs.raw, i) = DOT
                    => i + 1 < last /\ At(bs.raw, i + 1) = DOT

\* C6: for a transcript that message_read_bsmtp accepts (here: one whose
\* data section is stuffed and terminated), message_write of the framed
\* message with out = msg emits the captured transcript: pre, the re-stuffed
\* data section and post are the input.
C6_RoundTrip == C6_Stuffed => bs.written = bs.raw

\* The call of C7 has ended: Raw mode, not check-only, _message_filter
\* returned EX_OK, message_write succeeded on a descriptor without error
C7_Case ==
    /\ pc = "done"
    /\ flags.mode = "SPAMC_RAW_MODE"
    /\ ~flags.check_only
    /\ g.fret = "EX_OK"
    /\ ~g.failed
    /\ ~out_err

\* C7: in Raw mode, for a well-formed response to a call that is not
\* check-only, with a body within max_len + EXPANSION_ALLOWANCE bytes and a
\* matching Content-length, the output is exactly the body the daemon sent,
\* however read() split it.
C7_OutputIsBody == C7_Case => output = DaemonBody(g.body_rcvd)

\* Such a call whose body of two or more bytes came in several reads
C7_Witness ==
    /\ C7_Case
    /\ g.body_split
    /\ g.body_rcvd >= 2
    /\ output = DaemonBody(g.body_rcvd)

\* try_to_connect is in its loop or has just returned
InTryToConnect == pc \in {"connect", "connect_ret"}

\* The addresses dialed so far are those of a round robin from address 0,
\* at most MAX_CONNECT_RETRIES of them, and none follows a success
C8_RoundRobin ==
    InTryToConnect =>
        /\ Len(conn.dialed) <= MAX_CONNECT_RETRIES
        /\ \A i \in 1..Len(conn.dialed) :
              conn.dialed[i] = (i - 1) % conn.hostnum
        /\ (pc = "connect" /\ conn.dialed # <<>> => conn.status < 0)
        /\ (pc = "connect_ret" => (conn.ret = "EX_OK") = (conn.status = 0))

\* When every attempt was refused, timed out or found the network
\* unreachable, try_to_connect made MAX_CONNECT_RETRIES attempts, dialed
\* each of 3 addresses, and returns EX_UNAVAILABLE
C8_Unavailable ==
    pc = "connect_ret" /\ conn.status < 0 /\ conn.all_unavailable =>
        /\ Len(conn.dialed) = MAX_CONNECT_RETRIES
        /\ (conn.hostnum = 3 =>
              {conn.dialed[i] : i \in 1..Len(conn.dialed)} = {0, 1, 2})
        /\ conn.ret = "EX_UNAVAILABLE"

\* C8: try_to_connect with k >= 1 addresses dials address (attempt mod k),
\* makes at most MAX_CONNECT_RETRIES attempts, stops at the first success,
\* with 3 addresses that are all unavailable dials each one, and in that
\* case returns EX_UNAVAILABLE; and it always returns.
C8_ConnectRotation ==
    /\ [](C8_RoundRobin /\ C8_Unavailable)
    /\ (pc = "connect" ~> pc = "connect_ret")

\* try_to_connect has returned EX_UNAVAILABLE after dialing 3 addresses in
\* order
C8_Witness ==
    /\ pc = "connect_ret"
    /\ conn.hostnum = 3
    /\ conn.dialed = <<0, 1, 2>>
    /\ conn.all_unavailable
    /\ conn.ret = "EX_UNAVAILABLE"

\* C9: when message_read finds no DATA line in the transcript of a
\* batched-SMTP call, it returns EX_DATAERR, which the call returns if it is
\* not check-only, and up to then the call has made no resolver lookup and
\* no connect().
C9_NoNetworkBeforeFraming ==
    g.frame_rc = "EX_DATAERR" =>
        /\ g.lookups_at_frame = 0
        /\ g.attempts = 0
        /\ (pc = "done" /\ ~flags.check_only => result = "EX_DATAERR")

\* C10: a header line that is neither a Spam line nor a Content-length line
\* with a number >= 0 makes _message_filter return EX_PROTOCOL at once,
\* check-only or not: the header loop does not go on after it, and
\* _message_filter does not return EX_OK.
C10_BadHeaderIsProtocol == g.bad_hdr /\ ~g.failed => g.fret = "EX_PROTOCOL"

\* A call that is not check-only has ended after message_read found the
\* input oversize; no read() of the input reported an error and the output
\* descriptor took what it was given
C11_Case ==
    /\ pc = "done"
    /\ ~flags.check_only
    /\ g.frame_rc = "EX_TOOBIG"
    /\ ~g.in_err
    /\ ~out_err

\* C11: message_read captures at most max_len + 1 bytes; in Raw mode an
\* input of 1..max_len bytes is accepted and a longer one is EX_TOOBIG with
\* the max_len + 1 captured bytes kept; a call that is not check-only then
\* returns EX_TOOBIG without any connect() and its output is the whole
\* input.
C11_OversizeReplay ==
    /\ pc = "read_input" => in_pos <= max_size + 1
    /\ pc = "FAIL" /\ ~g.failed /\ g.frame_rc = "EX_TOOBIG"
         => /\ m.raw_len = max_size + 1
            /\ in_pos = max_size + 1
            /\ Deref(m.raw, m.raw_len, rawbuf, obuf)
                   = SubSeq(input, 1, max_size + 1)
    /\ flags.mode = "SPAMC_RAW_MODE"
         /\ g.frame_rc \notin {"none", "EX_IOERR", "EX_OSERR"}
         => g.frame_rc = IF Len(input) > max_size THEN "EX_TOOBIG"
                         ELSE "EX_OK"
    /\ C11_Case => /\ result = "EX_TOOBIG"
                   /\ g.attempts = 0
                   /\ output = input

\* Such a call on an input of max_len + 2 bytes
C11_Witness ==
    /\ C11_Case
    /\ Len(input) = max_size + 2
    /\ output = input
    /\ result = "EX_TOOBIG"


\* The number the token writes: the digits before the dot, and the digits
\* after it
IntValue(t) == DigitsValue(t.int, 1, Len(t.int) + 1)
FracValue(t) == DigitsValue(t.frac, 2, Len(t.frac) + 1)
FracDigits(t) == IF t.frac = <<>> THEN 0 ELSE Len(t.frac) - 1

\* The float f is whole + num / 10^n
IsDecimal(f, whole, num, n) ==
    /\ f.whole = whole
    /\ IF num = 0 THEN f.num = 0
       ELSE /\ f.num = num
            /\ f.den > 0
            /\ Digits(f.den) = <<ZERO + 1>> \o Zeros(n)

\* C14: for every token [-]digits[.digits], _locale_safe_string_to_float
\* returns the integer part plus the digits after the dot divided by 10 to
\* the number of those digits, with the sign of the token applied to both.
C14_DecimalValue ==
    fl.phase = "parsed" /\ fl.tok.tail = <<>> =>
        IF fl.tok.sign = <<>>
        THEN IsDecimal(fl.val, IntValue(fl.tok), FracValue(fl.tok),
                       FracDigits(fl.tok))
        ELSE IsDecimal(fl.val, 0 - IntValue(fl.tok), 0 - FracValue(fl.tok),
                       FracDigits(fl.tok))

\* C14 for the tokens with at most nine digits after the dot
C14_ShortFractions ==
    fl.phase = "parsed" /\ fl.tok.tail = <<>> /\ FracDigits(fl.tok) <= 9 =>
        IF fl.tok.sign = <<>>
        THEN IsDecimal(fl.val, IntValue(fl.tok), FracValue(fl.tok),
                       FracDigits(fl.tok))
        ELSE IsDecimal(fl.val, 0 - IntValue(fl.tok), 0 - FracValue(fl.tok),
                       FracDigits(fl.tok))

\* "-0.5" has been parsed to -0.5
C14_Witness ==
    /\ fl.phase = "parsed"
    /\ TokenText(fl.tok) = <<MINUS, ZERO, DOT, 53>>
    /\ fl.tok.tail = <<>>
    /\ fl.val = Float(0, -5, 10)

\* C12: the time a call with a timeout has been blocked in connect() and in
\* the reads of the response never exceeds that timeout.
C12_OneBudget == wire.phase # "idle" /\ wire.call.timeout > 0 =>
                     wire.blocked <= wire.call.timeout

\* C13: once message_read has run, free is only ever given the start of a
\* live allocation (never a pointer into raw, never a block already
\* released), and when the call returns no block is left allocated.
C13_ReleasedOnce ==
    g.frame_rc # "none" =>
        /\ ~heap.ub
        /\ pc # "crashed"
        /\ pc = "done" => heap.raw # "live" /\ heap.out # "live"

\* C15: a call that is not check-only and whose lookup failed returns
\* EX_NOHOST for HOST_NOT_FOUND, NO_ADDRESS and NO_RECOVERY, EX_TEMPFAIL for
\* TRY_AGAIN and EX_OSERR for any other cause, and has made no connect().
C15_LookupClassified ==
    /\ g.herr \notin {"none", "ok"} => g.attempts = 0
    /\ pc \in {"done", "crashed"} /\ ~flags.check_only
         /\ g.herr \notin {"none", "ok"}
         => /\ pc = "done"
            /\ result = IF g.herr \in {"HOST_NOT_FOUND", "NO_ADDRESS",
                                       "NO_RECOVERY"} THEN "EX_NOHOST"
                        ELSE IF g.herr = "TRY_AGAIN" THEN "EX_TEMPFAIL"
                        ELSE "EX_OSERR"

\* C15 for the calls that message_cleanup does not end
C15_ClassifiedIfReturned ==
    /\ g.herr \notin {"none", "ok"} => g.attempts = 0
    /\ pc = "done" /\ ~flags.check_only /\ g.herr \notin {"none", "ok"}
         => result = IF g.herr \in {"HOST_NOT_FOUND", "NO_ADDRESS",
                                    "NO_RECOVERY"} THEN "EX_NOHOST"
                     ELSE IF g.herr = "TRY_AGAIN" THEN "EX_TEMPFAIL"
                     ELSE "EX_OSERR"

\* The request the call of wire.call is to send: the command line, the
\* User line when a username is given, the Content-length line with the
\* length of the body, the blank line, the body
C16_Request ==
    LET c == wire.call
        keyword == CASE "SPAMC_CHECK_ONLY" \in c.fs -> Txt_CHECK
                     [] "SPAMC_CHECK_ONLY" \notin c.fs
                        /\ "SPAMC_REPORT_IFSPAM" \in c.fs -> Txt_REPORT_IFSPAM
                     [] c.fs \cap {"SPAMC_CHECK_ONLY", "SPAMC_REPORT_IFSPAM"}
                            = {}
                        /\ "SPAMC_REPORT" \in c.fs -> Txt_REPORT
                     [] c.fs = {"SPAMC_SYMBOLS"} -> Txt_SYMBOLS
                     [] c.fs = {} -> Txt_PROCESS
    IN keyword \o <<SP>> \o PROTOCOL_VERSION \o <<CR, LF>>
       \o (IF c.username.null THEN <<>>
           ELSE Txt_User \o c.username.text \o <<CR, LF>>)
       \o Txt_ContentLength \o Digits(Len(c.msg)) \o <<CR, LF>>
       \o <<CR, LF>>
       \o c.msg

C17_NewlineDelivered == wire.phase # "idle" => ~wire.stale_ok

\* C18: once a full_write of the request has failed, no read() of the
\* response is made and the call ends with EX_IOERR.
C18_WriteFailureIsIoError ==
    wire.phase # "idle" /\ wire.wr_err =>
        /\ ~wire.rd
        /\ wire.phase \in {"failed", "headers_done"} =>
              wire.failureval = "EX_IOERR"

\* C19: every connect() is made on a socket of its own: try_to_connect has
\* called socket() at least as often as connect().
C19_FreshSocket == g.attempts <= sock.created

\* _message_filter has returned, or was never called
C20_Returned == pc \in {"write", "FAIL", "dump", "done", "crashed"}

\* C20: a socket is closed at most once; when try_to_connect returns a
\* failure its socket is closed; and when _message_filter has returned,
\* with whatever outcome, every socket created is closed.
C20_ClosedOnce ==
    /\ sock.closed <= sock.created
    /\ pc = "connect_ret" /\ conn.ret # "EX_OK" =>
          sock.state = "closed" /\ sock.closed = sock.created
    /\ C20_Returned =>
          sock.state \in {"none", "closed"} /\ sock.closed = sock.created

\* _message_filter has failed on an over-long body and its socket is closed
C20_Witness ==
    /\ pc = "FAIL"
    /\ g.fret = "EX_TOOBIG"
    /\ g.body_rcvd > 0
    /\ sock.state = "closed"
    /\ sock.created = 1
    /\ sock.closed = 1
\* C21: between the resolver lookup and the connect attempts the
\* address list of the resolver is never read after a diagnostic was
\* logged: _lookup_host logs only when it fails, and the copy loop of
\* try_to_connect logs only when it stops reading the list
C21_CopyBeforeLog == ~g.stale

C21_Witness ==
    /\ pc = "connect"
    /\ conn.ignored
    /\ conn.hostnum = inaddrlist_size
    /\ g.attempts > 0
    /\ ~g.logged

\* The version of the status line s, as a decimal, is below 1.0: its
\* integer part is
C22_BelowOne(s) == strtol(ScanStatus(s).versbuf, 1).val < 1

\* C22: when the first response line is not SPAMD/<version> <code> ..., or
\* its version is below 1.0, _message_filter fails with EX_PROTOCOL and
\* reads nothing more from the transport.
C22_BadStatusFails ==
    wire.parsed /\ (ScanStatus(wire.status).n # 2 \/ C22_BelowOne(wire.status))
        => /\ wire.phase = "failed"
           /\ wire.failureval = "EX_PROTOCOL"
           /\ wire.pos = wire.status_end

\* _message_filter has returned to a check-only call after the blank line
\* that ends the headers, and message_process has not yet acted on that
C23_Returned ==
    /\ flags.check_only
    /\ pc = "write" \/ (pc = "FAIL" /\ g.fret # "EX_OK")
    /\ g.hdr_end
    /\ ~g.failed

\* C23: a check-only call never reads the body; when the headers have
\* ended, _message_filter has succeeded exactly if a verdict line was among
\* them, and then out holds the line "<score>/<threshold>\n" of the last
\* verdict line, each with one decimal; without a verdict line it has
\* failed with EX_PROTOCOL.
C23_CheckOnlySummary ==
    /\ flags.check_only => pc # "body" /\ g.body_rcvd = 0
    /\ C23_Returned =>
          IF g.tok = <<>>
          THEN g.fret = "EX_PROTOCOL"
          ELSE /\ g.fret = "EX_OK"
               /\ m.out = OUT_BLOCK
               /\ SubSeq(obuf, 1, m.out_len)
                    = Fmt1(m.score) \o <<47>> \o Fmt1(m.threshold) \o <<LF>>

\* A check-only call has read a Content-length line and the verdict line
\* with 7.5 / 5.0, and _message_filter has returned EX_OK
C23_Witness ==
    /\ C23_Returned
    /\ g.nhdr = 2
    /\ m.content_length >= 0
    /\ m.score = 75
    /\ g.fret = "EX_OK"

\* A line of raw starts at index s (from 0), and it is the token DATA in
\* any letter case followed by LF or CR LF
C24_DataLine(raw, s) ==
    /\ s = 0 \/ At(raw, s - 1) = LF
    /\ s + 4 < Len(raw)
    /\ IsD(At(raw, s)) /\ IsA(At(raw, s + 1))
    /\ IsT(At(raw, s + 2)) /\ IsA(At(raw, s + 3))
    /\ \/ At(raw, s + 4) = LF
       \/ (s + 5 < Len(raw) /\ At(raw, s + 4) = CR /\ At(raw, s + 5) = LF)

\* The number of bytes up to and including the terminator of that line
C24_LineEnd(raw, s) == IF At(raw, s + 4) = LF THEN s + 5 ELSE s + 6

\* C24: when the captured transcript has a DATA line, message_read_bsmtp
\* returns EX_OK and pre_len is the number of bytes up to and including the
\* terminator of the first such line.
C24_FindsData ==
    bs.phase \in {"framed", "rejected"} =>
        \A s \in 0..(Len(bs.raw) - 1) :
            (/\ C24_DataLine(bs.raw, s)
             /\ \A t \in 0..(s - 1) : ~C24_DataLine(bs.raw, t))
            => /\ bs.rc = "EX_OK"
               /\ bs.m.pre = RAW_BLOCK
               /\ bs.m.pre_len = C24_LineEnd(bs.raw, s)

\* The body from index i (from 0) on with a dot added in front of every
\* line that begins with a dot; prev is the byte before index i, LF at the
\* start of the body
RECURSIVE C25_Stuffed(_, _, _)
C25_Stuffed(body, i, prev) ==
    IF i >= Len(body) THEN <<>>
    ELSE (IF prev = LF /\ At(body, i) = DOT THEN <<DOT, DOT>>
          ELSE <<At(body, i)>>)
         \o C25_Stuffed(body, i + 1, At(body, i))

\* C25: message_write of a batched-SMTP Message writes pre, then the body
\* with the dot doubled at the start of every line that begins with a dot,
\* the first line included, then post.
C25_Serialized ==
    bs.phase = "written" =>
        bs.written =
            Deref(bs.m.pre, bs.m.pre_len, bs.rawbuf, <<>>)
            \o C25_Stuffed(Deref(bs.m.out, bs.m.out_len, bs.rawbuf, <<>>),
                           0, LF)
            \o Deref(bs.m.post, bs.m.post_len, bs.rawbuf, <<>>)

\* The scans, a pass at a time, frame the transcript as ReadBsmtp does
ScanAgrees ==
    bs.phase \in {"framed", "rejected"} =>
        LET f == ReadBsmtp(bs.raw, bs.junk)
        IN /\ f.rc = bs.rc
           /\ bs.rc = "EX_OK" =>
                 /\ f.pre_len = bs.pre_len
                 /\ f.msg_len = bs.msg_len
                 /\ f.post = bs.post
                 /\ f.post_len = bs.post_len
                 /\ f.j = bs.j
                 /\ f.raw = SubSeq(bs.raw, 1, bs.pre_len) \o bs.msg

\* C26: in the unstuffing pass of message_read_bsmtp the write index never
\* exceeds the read index, and the unstuffed body is never longer than the
\* data section.
C26_WriteBehindRead ==
    bs.phase \in {"unstuff", "framed"} =>
        /\ bs.j <= bs.i
        /\ bs.msg_len <= Len(bs.raw) - bs.pre_len

\* The pass has removed an escaping dot and copied bytes after it
C26_Witness ==
    /\ bs.phase = "unstuff"
    /\ bs.j > 0
    /\ bs.j < bs.i

\* C27: when message_read_bsmtp returns EX_OK, msg_len is the number of
\* bytes the unstuffing pass wrote, with or without a lone-dot line.
C27_LengthIsWritten == bs.phase = "framed" => bs.msg_len = bs.j

\* C28: neither scan of message_read_bsmtp reads a byte at an index at or
\* beyond raw_len.
C28_ReadsWithinCapture == bs.hi < Len(bs.raw)

\* _message_filter is running, or has returned and message_process has not
\* yet acted on that
C29_InFilter ==
    \/ pc \in {"connect", "connect_ret", "status", "headers", "body"}
    \/ (pc \in {"write", "FAIL"} /\ g.fret # "none")

\* _message_filter has failed, and message_process has not yet acted on it
C29_Failed ==
    /\ pc = "FAIL"
    /\ g.fret \notin {"none", "EX_OK"}
    /\ ~g.failed

\* C29: during and after a call of _message_filter
\* 0 <= out_len <= max_len + EXPANSION_ALLOWANCE, also for the value that
\* the sanity check reads; and after a failure out is msg and out_len is
\* msg_len <= max_len.
C29_OutLenBounded ==
    /\ C29_InFilter =>
          /\ 0 <= m.out_len
          /\ m.out_len <= m.max_len + EXPANSION_ALLOWANCE
          /\ 0 <= g.sanity_len
          /\ g.sanity_len <= m.max_len + EXPANSION_ALLOWANCE
    /\ C29_Failed =>
          m.out = m.msg /\ m.out_len = m.msg_len /\ m.msg_len <= m.max_len

\* C30, the part on what is written and returned: full_write returns len
\* with the len bytes taken in order, or a negative value after a write()
\* error that is neither EINTR nor EAGAIN
C30_Returns ==
    wc.phase = "returned" =>
        \/ wc.rv = wc.len /\ wc.taken = wc.buf
        \/ wc.rv < 0 /\ wc.thistime < 0 /\ ~Retried(wc.errno)

\* C30: full_write returns unless write() reports EINTR or EAGAIN again
\* and again; a write() that keeps returning 0 does not keep it in its
\* loop.
C30_Terminates ==
    []<>(wc.phase = "loop" /\ wc.thistime < 0) \/ <>(wc.phase = "returned")

\* C31: for every token made of a number and characters after it,
\* _locale_safe_string_to_float returns what it returns for the number
\* alone.
C31_IgnoresTail ==
    fl.phase = "parsed" =>
        fl.val = locale_safe_string_to_float(
                     TokenText([fl.tok EXCEPT !.tail = <<>>]), StrSize)

\* C32: in the standalone client, when the connection fails and
\* safe-fallback is set, the input is copied unchanged to the output and
\* process_message returns what try_to_connect returned, not the result of
\* the copy.
C32_FallbackKeepsFailure ==
    (/\ pm.phase = "returned"
     /\ pm.caller = "fallback"
     /\ ~pm.io_err)
    => /\ pm.stdout = pm.stdin
       /\ pm.rv = pm.connected

\* C33: every return of _message_filter leaves libspamc_timeout = 0.
C33_TimeoutCleared ==
    wire.phase \in {"failed", "returned"} => wire.libspamc_timeout = 0

\* C34: message_process reads no field of m before it was assigned: after
\* a failed lookup free is given no pointer that was never assigned and the
\* call does not crash, and while _message_filter is connected or
\* connecting, the m.timeout it installed as libspamc_timeout is a value
\* that was assigned.
C34_AssignedBeforeRead ==
    /\ g.herr \notin {"none", "ok"} => ~heap.ub /\ pc # "crashed"
    /\ pc \in {"connect", "connect_ret", "status", "headers", "body"}
         => m.timeout # Unassigned

=============================================================================
